---- MODULE Spec2Model ----
(***************************************************************************)
(* PlantMama: the image admission pipeline of services/image_processing.py *)
(* (ImageProcessor.process_image, extract_plant_features,                  *)
(* validate_plant_image) as a state machine.  In Spec one call runs at a   *)
(* time; a call walks through the statements of the code in order, and     *)
(* `trail' records the statements it has executed.  FeatureSpec applies    *)
(* the feature functions to small pixel arrays, and ConcurrentSpec runs    *)
(* several calls at once.  BotSpec is the Telegram side: the start of      *)
(* main.py and the handlers of handlers/telegram_handler.py, which hand    *)
(* photos to the pipeline.  StoreSpec is tools/user_management.py on the   *)
(* tables of database/models.py.                                           *)
(*                                                                         *)
(* An image file is a record: whether PIL can decode it, the format PIL    *)
(* reports, the mode, the size <<width, height>>, the EXIF orientation and *)
(* the pixel content px.  The pixel content is a histogram of at most two  *)
(* colours: na pixels of colour a, the others of colour b (a uniform image *)
(* has na = 0).  A colour is <<r, g, b>>, each 0..255; a mode "L" image    *)
(* has r = g = b.                                                          *)
(***************************************************************************)
EXTENDS Integers, Sequences, FiniteSets, TLC

VARIABLES
    op,             \* the entry point running: "none", "validate", "process"
    pc,             \* the statement the call is at
    image_data,     \* the bytes handed to process_image (an image file)
    image,          \* process_image's local `image'
    metadata,       \* process_image's local `metadata' (a dict)
    processed_data, \* the bytes process_image returned
    exc,            \* the message of the exception in flight, "" when none
    exc_type,       \* the class of the exception in flight, "" when none
    features,       \* validate_plant_image's local `features' (a dict)
    ret,            \* what validate_plant_image returned: <<flag, reason>>
    trail,          \* the statements executed by the running call
    npass,          \* how often process_image ran on its own output
    img_array,      \* the pixel array a feature function is applied to
    fpc,            \* the feature function to apply next
    fout,           \* what the feature functions returned, by feature name
    cls,            \* the class attributes of ImageProcessor
    calls,          \* the locals of the calls when several run at once
    interleaved,    \* whether a call took a step while another was in flight
    bpc,            \* the statement the bot (main.py or a handler) is at
    update,         \* the Telegram update the running handler was given
    outbox,         \* the Telegram calls the running handler has made
    hexc,           \* the exception in flight in the bot, "" when none
    escaped,        \* the exception that left the handler or main.py, or ""
    invoked,        \* the calls the handler made to the pipeline and the agent
    script,         \* how main.py was started, and what it has done so far
    dpc,            \* the statement a tool of user_management.py is at
    dcall,          \* the tool running, its arguments and its locals
    db,             \* the committed rows of the database
    tx,             \* the rows as the open database session sees them
    dret            \* what the tool returned or raised

vars == <<op, pc, image_data, image, metadata, processed_data, exc, exc_type,
          features, ret, trail, npass>>

\* the state of the feature functions applied to an array by themselves
fvars == <<img_array, fpc, fout>>

\* the state of calls running concurrently
cvars == <<cls, calls, interleaved>>

\* the state of the Telegram bot
bvars == <<bpc, update, outbox, hexc, escaped, invoked, script>>

\* the state of the database tools
dvars == <<dpc, dcall, db, tx, dret>>

allvars == <<vars, fvars, cvars, bvars, dvars>>

-----------------------------------------------------------------------------
(* Bounds of the model *)

\* process_image is fed its own output at most MaxPasses - 1 times
MaxPasses == 2

\* the most elongated inputs are MaxElong times MAX_SIZE long
MaxElong == 11

-----------------------------------------------------------------------------
(* Class constants, image_processing.py lines 21-23 *)

MAX_SIZE == <<1024, 1024>>

\* the allowed formats with GIF among them
AllowedFormatsGif == {"JPEG", "PNG", "JPG", "WEBP", "GIF"}

ALLOWED_FORMATS == {"JPEG", "PNG", "JPG", "WEBP"}

MIN_SIZE == <<100, 100>>

-----------------------------------------------------------------------------
(* Values *)

None == "None"

NoColour == <<0, 0, 0>>

NoPx == [na |-> 0, a |-> NoColour, b |-> NoColour]

NoImage ==
    [decodable |-> FALSE, format |-> None, mode |-> None, size |-> <<0, 0>>,
     orientation |-> 1, px |-> NoPx]

\* a Python dict with string keys: a function; {} is the empty function
EmptyDict == [k \in {} |-> None]

Get(d, key, default) == IF key \in DOMAIN d THEN d[key] ELSE default

Put(d, key, value) == [k \in DOMAIN d \cup {key} |-> IF k = key THEN value ELSE d[k]]

Min(x, y) == IF x <= y THEN x ELSE y

Max(x, y) == IF x >= y THEN x ELSE y

Clip8(v) == Max(0, Min(255, v))

Sum3(c) == c[1] + c[2] + c[3]

Pixels(size) == size[1] * size[2]

-----------------------------------------------------------------------------
(* Pillow, as process_image uses it *)

\* Image.convert("L") of one RGB pixel (ITU-R 601-2 luma, 16-bit fixed point)
Luma(c) == (c[1] * 19595 + c[2] * 38470 + c[3] * 7471 + 32768) \div 65536

\* Image.blend(degenerate, image, 1.1) of one channel: extrapolation,
\* truncated and clipped to 0..255
Blend11(d, v) == Clip8((10 * d + 11 * (v - d)) \div 10)

BlendColour(d, c) == <<Blend11(d[1], c[1]), Blend11(d[2], c[2]), Blend11(d[3], c[3])>>

Grey(v) == <<v, v, v>>

\* ImageEnhance.Contrast(image).enhance(1.1) on a uniform image: the
\* degenerate image is the rounded mean luma, which is the pixel's luma
ContrastUniform(c) == BlendColour(Grey(Luma(c)), c)

\* ImageEnhance.Color(image).enhance(1.1): the degenerate image is the
\* greyscale version of the image
ColorUniform(c) == BlendColour(Grey(Luma(c)), c)

\* ImageEnhance.Sharpness(image).enhance(1.1): the degenerate image is the
\* SMOOTH-filtered image, which for a uniform image is the image
SharpnessUniform(c) == BlendColour(c, c)

\* _enhance_plant_image on the one colour of a uniform image
EnhanceColour(c) == SharpnessUniform(ColorUniform(ContrastUniform(c)))

IsUniform(px) == px.na = 0

\* _enhance_plant_image; the enhanced pixels of a non-uniform image depend on
\* where its pixels lie, and are settled when the image is encoded
EnhancePlantImage(im) ==
    IF IsUniform(im.px)
    THEN [im EXCEPT !.px = [na |-> 0, a |-> EnhanceColour(im.px.b), b |-> EnhanceColour(im.px.b)]]
    ELSE im

\* ImageOps.exif_transpose: orientations 5..8 swap the axes; the tag is removed
ExifTranspose(im) ==
    [im EXCEPT !.size = IF im.orientation \in 5..8 THEN <<im.size[2], im.size[1]>> ELSE im.size,
               !.orientation = 1]

\* Image.thumbnail's round_aspect for a tall image: the width nearest to
\* y * aspect among floor and ceil (floor on a tie), at least 1
RoundAspectX(size, y) ==
    LET n1 == (y * size[1]) \div size[2]
        r  == y * size[1] - n1 * size[2]
    IN  Max(IF 2 * r <= size[2] THEN n1 ELSE n1 + 1, 1)

\* round_aspect for a wide image: the height n among floor and ceil of
\* x / aspect whose x / n is nearest to the aspect ratio, at least 1 (when
\* both are equally near, which no size of Sides is, Pillow's floats decide)
RoundAspectY(size, x) ==
    LET n1 == (x * size[2]) \div size[1]
        r  == x * size[2] - n1 * size[1]
    IN  Max(IF r = 0 \/ r * (2 * n1 + 1) <= n1 * size[1] THEN n1 ELSE n1 + 1, 1)

\* a resize that bounds the width only
ThumbnailWidthOnly(size, box) == <<Min(size[1], box[1]), size[2]>>

\* a resize to the box itself (Image.resize in place of Image.thumbnail)
ThumbnailStretch(size, box) == box

\* Image.thumbnail(box): the size it resizes to (preserve_aspect_ratio)
Thumbnail(size, box) ==
    IF box[1] >= size[1] /\ box[2] >= size[2]
    THEN size
    ELSE IF box[1] * size[2] >= box[2] * size[1]
         THEN <<RoundAspectX(size, box[2]), box[2]>>
         ELSE <<box[1], RoundAspectY(size, box[1])>>

-----------------------------------------------------------------------------
(* image.save(format="JPEG", quality=85) and Image.open of the result, for  *)
(* a uniform image: libjpeg's colour conversion and the quantisation of the *)
(* one non-zero (DC) coefficient of every block                             *)

\* quantisation step of the DC coefficient at quality 85, luma and chroma
\* (base 16 and 17, scaled by 200 - 2 * 85 per cent)
QuantDC(base) == (base * (200 - 2 * 85) + 50) \div 100

\* a sample v after forward DCT, quantisation by q, dequantisation, inverse DCT
JpegSample(v, q) ==
    LET s   == v - 128
        mag == (64 * (IF s < 0 THEN -s ELSE s) + 4 * q) \div (8 * q)
        dc  == q * (IF s < 0 THEN -mag ELSE mag)
    IN  Clip8(128 + (dc + 4) \div 8)

RgbToYCbCr(c) ==
    <<(19595 * c[1] + 38470 * c[2] + 7471 * c[3] + 32768) \div 65536,
      (-11059 * c[1] - 21709 * c[2] + 32768 * c[3] + 128 * 65536 + 32767) \div 65536,
      (32768 * c[1] - 27439 * c[2] - 5329 * c[3] + 128 * 65536 + 32767) \div 65536>>

YCbCrToRgb(y) ==
    <<Clip8(y[1] + (91881 * (y[3] - 128) + 32768) \div 65536),
      Clip8(y[1] + (-22554 * (y[2] - 128) - 46802 * (y[3] - 128) + 32768) \div 65536),
      Clip8(y[1] + (116130 * (y[2] - 128) + 32768) \div 65536)>>

\* the colour a uniform image of colour c decodes to after the JPEG round trip
JpegColour(c, mode) ==
    IF mode = "L"
    THEN Grey(JpegSample(c[1], QuantDC(16)))
    ELSE LET y == RgbToYCbCr(c)
         IN  YCbCrToRgb(<<JpegSample(y[1], QuantDC(16)),
                          JpegSample(y[2], QuantDC(17)),
                          JpegSample(y[3], QuantDC(17))>>)

-----------------------------------------------------------------------------
(* Feature extraction, on the pixel histogram of the decoded image.         *)
(* Ratios are held in thousandths (the code rounds them to 3 decimals);     *)
(* brightness, a float mean, is held as the fraction <<sum, count>>.        *)

\* the green mask with its band cut at 200
IsGreenNarrow(c) == 5 * c[2] > 6 * c[1] /\ 5 * c[2] > 6 * c[3] /\ c[2] > 40 /\ c[2] < 200

\* the green mask with the bounds of its band included
IsGreenInclusive(c) == 5 * c[2] > 6 * c[1] /\ 5 * c[2] > 6 * c[3] /\ c[2] >= 40 /\ c[2] <= 250

\* green_mask of one pixel: (g > r * 1.2) & (g > b * 1.2) & (g > 40) & (g < 250)
IsGreen(c) == 5 * c[2] > 6 * c[1] /\ 5 * c[2] > 6 * c[3] /\ c[2] > 40 /\ c[2] < 250

\* the brown mask without its order of the channels (R > G > B)
IsBrownUnordered(c) == c[1] > 50 /\ c[1] < 180 /\ c[2] > 30 /\ c[2] < 140

\* brown_mask of one pixel
IsBrown(c) ==
    c[1] > c[2] /\ c[2] > c[3] /\ c[1] > 50 /\ c[1] < 180 /\ c[2] > 30 /\ c[2] < 140

\* the histogram np.array(image) has: a uniform image counts as one pixel
\* (means and ratios do not depend on the number of equal pixels)
Histogram(im) ==
    IF IsUniform(im.px)
    THEN [n |-> 1, na |-> 0, a |-> im.px.b, b |-> im.px.b]
    ELSE [n |-> Pixels(im.size), na |-> im.px.na, a |-> im.px.a, b |-> im.px.b]

\* np.sum(green_mask)
GreenCount(h) ==
    (IF IsGreen(h.a) THEN h.na ELSE 0) + (IF IsGreen(h.b) THEN h.n - h.na ELSE 0)

\* np.sum(brown_mask)
BrownCount(h) ==
    (IF IsBrown(h.a) THEN h.na ELSE 0) + (IF IsBrown(h.b) THEN h.n - h.na ELSE 0)

\* round(count / n, 3), in thousandths: to the nearest, a tie to the even one
Round3(count, n) ==
    LET q == (1000 * count) \div n
        r == 1000 * count - q * n
    IN  IF 2 * r > n \/ (2 * r = n /\ q % 2 = 1) THEN q + 1 ELSE q

CalculateGreenRatio(h) == Round3(GreenCount(h), h.n)

CalculateBrownRatio(h) == Round3(BrownCount(h), h.n)

\* float(np.mean(img_array)): the mean over all three channels
Brightness(h) == <<h.na * Sum3(h.a) + (h.n - h.na) * Sum3(h.b), 3 * h.n>>

\* comparisons of a fraction <<sum, count>> with an integer
FracLt(f, k) == f[1] < k * f[2]

FracGt(f, k) == f[1] > k * f[2]

Sq3(c) == c[1] * c[1] + c[2] * c[2] + c[3] * c[3]

\* nine times the variance of the 3n channel values, rounded down: with
\* M their sum and Q the sum of their squares it is 3Q/n - (M/n)^2, here
\* computed through quotients and remainders by n to stay within 32 bits
Variance9(h) ==
    LET M == h.na * Sum3(h.a) + (h.n - h.na) * Sum3(h.b)
        Q == h.na * Sq3(h.a) + (h.n - h.na) * Sq3(h.b)
        m == M \div h.n
        r == M % h.n
        k == Q \div h.n
        t == Q % h.n
    IN  3 * k - m * m + ((3 * t - 2 * m * r - ((r * r + h.n - 1) \div h.n)) \div h.n)

\* float(np.std(img_array)), rounded down to a whole number
Contrast(h) ==
    LET v == Variance9(h) \div 9
    IN  CHOOSE s \in 0..128 : s * s <= v /\ v < (s + 1) * (s + 1)

HighBrown == "High brown color ratio - possible dead or diseased areas"

LowGreenIssue == "Low green color ratio - may not be a healthy plant"

DarkIssue == "Image too dark for accurate analysis"

OverexposedIssue == "Image overexposed - details may be lost"

LowContrast == "Low contrast - image may be blurry or out of focus"

\* lines 246-269, _detect_visual_issues
DetectVisualIssues(f) ==
    (IF Get(f, "brown_ratio", 0) > 300 THEN <<HighBrown>> ELSE <<>>)
    \o (IF Get(f, "green_ratio", 0) < 100 THEN <<LowGreenIssue>> ELSE <<>>)
    \o (IF FracLt(Get(f, "brightness", <<128, 1>>), 50) THEN <<DarkIssue>>
        ELSE IF FracGt(Get(f, "brightness", <<128, 1>>), 220) THEN <<OverexposedIssue>>
        ELSE <<>>)
    \o (IF Get(f, "contrast", 50) < 20 THEN <<LowContrast>> ELSE <<>>)

\* the dict extract_plant_features returns for decodable bytes: the features
\* that the histogram of the pixels determines (dominant_colors,
\* texture_complexity and leaf_edge_detection depend on where the pixels
\* are; the feature functions on a pixel array compute them)
Features(im) ==
    LET h == Histogram(im)
        f == [brightness |-> Brightness(h),
              contrast |-> Contrast(h),
              green_ratio |-> CalculateGreenRatio(h),
              brown_ratio |-> CalculateBrownRatio(h)]
    IN  Put(f, "potential_issues", DetectVisualIssues(f))

-----------------------------------------------------------------------------
(* validate_plant_image, lines 289-302: the rules on the features *)

LowGreen == "Image doesn't appear to contain a plant (very low green content)"

TooDark == "Image is too dark for analysis"

TooBright == "Image is too bright/overexposed for analysis"

TooBright2 == "Image is too bright/overexposed"

\* the rules with strict bounds: the boundary values rejected
ValidateRulesStrict(f) ==
    IF Get(f, "green_ratio", 0) <= 50
    THEN <<FALSE, LowGreen>>
    ELSE IF ~FracGt(Get(f, "brightness", <<128, 1>>), 30)
    THEN <<FALSE, TooDark>>
    ELSE IF ~FracLt(Get(f, "brightness", <<128, 1>>), 250)
    THEN <<FALSE, TooBright>>
    ELSE <<TRUE, None>>

\* the rules reporting the last reason that applies instead of the first
ValidateRulesLast(f) ==
    IF FracGt(Get(f, "brightness", <<128, 1>>), 250)
    THEN <<FALSE, TooBright>>
    ELSE IF FracLt(Get(f, "brightness", <<128, 1>>), 30)
    THEN <<FALSE, TooDark>>
    ELSE IF Get(f, "green_ratio", 0) < 50
    THEN <<FALSE, LowGreen>>
    ELSE <<TRUE, None>>

\* the rules with the darkness rule moved before the green rule
ValidateRulesDarkFirst(f) ==
    IF FracLt(Get(f, "brightness", <<128, 1>>), 30)
    THEN <<FALSE, TooDark>>
    ELSE IF Get(f, "green_ratio", 0) < 50
    THEN <<FALSE, LowGreen>>
    ELSE IF FracGt(Get(f, "brightness", <<128, 1>>), 250)
    THEN <<FALSE, TooBright>>
    ELSE <<TRUE, None>>

\* the rules with the overexposure rule moved before the green rule
ValidateRulesBrightFirst(f) ==
    IF FracGt(Get(f, "brightness", <<128, 1>>), 250)
    THEN <<FALSE, TooBright>>
    ELSE IF Get(f, "green_ratio", 0) < 50
    THEN <<FALSE, LowGreen>>
    ELSE IF FracLt(Get(f, "brightness", <<128, 1>>), 30)
    THEN <<FALSE, TooDark>>
    ELSE <<TRUE, None>>

\* the rules rejecting as well every image with an advisory finding
ValidateRulesAdvisory(f) ==
    IF Get(f, "green_ratio", 0) < 50
    THEN <<FALSE, LowGreen>>
    ELSE IF FracLt(Get(f, "brightness", <<128, 1>>), 30)
    THEN <<FALSE, TooDark>>
    ELSE IF FracGt(Get(f, "brightness", <<128, 1>>), 250)
    THEN <<FALSE, TooBright>>
    ELSE IF Get(f, "potential_issues", <<>>) # <<>>
    THEN <<FALSE, Head(Get(f, "potential_issues", <<>>))>>
    ELSE <<TRUE, None>>

ValidateRules(f) ==
    IF Get(f, "green_ratio", 0) < 50
    THEN <<FALSE, LowGreen>>
    ELSE IF FracLt(Get(f, "brightness", <<128, 1>>), 30)
    THEN <<FALSE, TooDark>>
    ELSE IF FracGt(Get(f, "brightness", <<128, 1>>), 250)
    THEN <<FALSE, TooBright>>
    ELSE IF FracGt(Get(f, "brightness", <<0, 1>>), 250)
    THEN <<FALSE, TooBright2>>
    ELSE <<TRUE, None>>

\* the size check rejecting only an image small on both axes
IsTooSmallBoth(size) == size[1] < MIN_SIZE[1] /\ size[2] < MIN_SIZE[2]

\* the size check looking at the width only
IsTooSmallWidth(size) == size[1] < MIN_SIZE[1]

\* line 48: the size check of process_image
IsTooSmall(size) == size[1] < MIN_SIZE[1] \/ size[2] < MIN_SIZE[2]

\* the resize test asking for both axes to exceed the maximum
IsTooLargeBoth(size) == size[1] > MAX_SIZE[1] /\ size[2] > MAX_SIZE[2]

\* line 74: the test that makes process_image resize
IsTooLarge(size) == size[1] > MAX_SIZE[1] \/ size[2] > MAX_SIZE[2]

-----------------------------------------------------------------------------
(* Exception messages *)

Unsupported == "Unsupported image format"

TooSmall == "Image too small"

CannotIdentify == "cannot identify image file"

\* the classes of the exceptions: lines 45, 49 and 92 raise ValueError,
\* Image.open (line 41) raises PIL.UnidentifiedImageError
ValueError == "ValueError"

UnidentifiedImageError == "UnidentifiedImageError"

\* a ValueError raised without a message
WrapBare(msg) == ""

\* a ValueError whose message leaves out the cause
WrapSame(msg) == "Failed to process image"

\* line 92: ValueError(f"Failed to process image: {str(e)}")
Wrap(msg) ==
    CASE msg = Unsupported -> "Failed to process image: Unsupported image format"
      [] msg = TooSmall -> "Failed to process image: Image too small"
      [] OTHER -> "Failed to process image: cannot identify image file"

-----------------------------------------------------------------------------
(* The inputs of the model *)

Black == <<0, 0, 0>>

White == <<255, 255, 255>>

AllGreen == <<0, 200, 0>>

\* the formats Image.open reports (its plugins' names; "JPG" is not one)
Formats == {"JPEG", "PNG", "WEBP", "GIF", "MPO"}

\* the modes Image.open gives a file of each format
ModesOf(format) ==
    CASE format = "JPEG" -> {"RGB", "L", "CMYK"}
      [] format = "PNG" -> {"RGB", "RGBA", "L"}
      [] format = "WEBP" -> {"RGB", "RGBA"}
      [] format = "GIF" -> {"P"}
      [] OTHER -> {"RGB"}

\* side lengths around MIN_SIZE and MAX_SIZE, and elongated ones
Sides ==
    {MIN_SIZE[1] - 1, MIN_SIZE[1], MIN_SIZE[1] + 1, 1000,
     MAX_SIZE[1] - 1, MAX_SIZE[1], MAX_SIZE[1] + 1, 1500, 2000}
    \cup {MAX_SIZE[1] * k : k \in {2, MaxElong - 1, MaxElong}}

Uniform(c) == [na |-> 0, a |-> c, b |-> c]

\* the pixels of non-uniform 100 x 100 images: na pixels of colour a (green
\* to the mask), the others of colour b; no count is a rounding tie
MixedCounts == {400, 494, 496, 499, 500, 504, 1000, 9000}

MixedColours ==
    {<<<<40, 160, 40>>, <<128, 128, 128>>>>,
     <<<<10, 70, 10>>, <<30, 30, 30>>>>,
     <<<<9, 70, 10>>, <<30, 30, 30>>>>,
     <<<<206, 248, 206>>, <<253, 254, 253>>>>}

Mixtures == {[na |-> k, a |-> p[1], b |-> p[2]] : k \in MixedCounts, p \in MixedColours}

File(format, mode, size, orientation, px) ==
    [decodable |-> TRUE, format |-> format, mode |-> mode, size |-> size,
     orientation |-> orientation, px |-> px]

\* a buffer Image.open cannot decode
Malformed == NoImage

\* files of every format, mode, size and orientation, all of one colour
GeometryInputs ==
    {File(f, m, <<w, h>>, o, Uniform(IF m = "L" THEN Grey(128) ELSE AllGreen)) :
        f \in Formats, m \in {"RGB", "L", "RGBA", "CMYK", "P"}, w \in Sides, h \in Sides,
        o \in {1, 6}}

\* the synthetic images, and photos, at the minimum size and above the maximum
ContentInputs ==
    {File("PNG", "RGB", sz, 1, Uniform(c)) :
        sz \in {MIN_SIZE, <<2000, 1500>>},
        c \in {Black, White, AllGreen, <<150, 100, 50>>, <<30, 90, 30>>}}
    \cup {File("PNG", "L", MIN_SIZE, 1, Uniform(Grey(v))) : v \in {0, 128, 255}}
    \cup {File("JPEG", "RGB", MIN_SIZE, 1, px) :
            px \in {[na |-> 500, a |-> <<40, 160, 40>>, b |-> <<128, 128, 128>>],
                    [na |-> 9000, a |-> <<9, 70, 10>>, b |-> <<30, 30, 30>>]}}

\* grey levels from black to white, around the bounds of the brightness band
GreyLevels == {0, 29, 128, 251, 255}

\* greyscale images of two grey levels, half the pixels each
GreyMixtures == {[na |-> 5000, a |-> Grey(u), b |-> Grey(v)] : u, v \in {0, 128, 255}}

\* greyscale photos: mode L files, and RGB files whose pixels have R = G = B
GreyInputs ==
    {File(f, m, MIN_SIZE, 1, Uniform(Grey(v))) :
        f \in {"JPEG", "PNG"}, m \in {"RGB", "L"}, v \in GreyLevels}
    \cup {File("PNG", m, MIN_SIZE, 1, px) :
            m \in {"RGB", "L"}, px \in {mx \in GreyMixtures : mx.a # mx.b}}

Inputs ==
    {d \in GeometryInputs : d.mode \in ModesOf(d.format)}
    \cup ContentInputs \cup GreyInputs \cup {Malformed}

\* what the encoder makes of the pixels: the colour of a uniform image after
\* the JPEG round trip; the enhanced, sharpened, compressed pixels of a
\* non-uniform image are any of the model's histograms.  The enhancers, the
\* chroma conversion and the decoder treat the three channels alike, so an
\* image whose pixels all have R = G = B (and a mode L image, which is saved
\* as a one-channel JPEG) decodes to pixels with R = G = B, of any levels.
Encode(px, mode) ==
    IF IsUniform(px)
    THEN {Uniform(JpegColour(px.b, mode))}
    ELSE IF mode = "L" \/ (px.a = Grey(px.a[1]) /\ px.b = Grey(px.b[1]))
         THEN GreyMixtures
         ELSE Mixtures

-----------------------------------------------------------------------------
(* The state machine *)

\* no update (no handler is running)
NoUpdate == [kind |-> "none"]

\* main.py has not been started
NotStarted == [launch |-> "none", core_agent |-> "none", attached |-> {}, done |-> <<>>]

\* no tool of user_management.py is running
NoCall == [tool |-> "none"]

\* nothing returned yet
NoReturn == [status |-> "none"]

\* the tables of database/models.py this model keeps: users (the row id is
\* the position), sessions by id, messages, reminders, and the ids of plants
EmptyTables ==
    [users |-> <<>>, sessions |-> EmptyDict, messages |-> <<>>, reminders |-> <<>>,
     plants |-> {1}]

\* no array (np.array has not run)
NoArray == [ndim |-> 0, h |-> 0, w |-> 0, px |-> <<>>]

\* lines 21-23: the class attributes
ClassAttributes ==
    [MAX_SIZE |-> MAX_SIZE, ALLOWED_FORMATS |-> ALLOWED_FORMATS, MIN_SIZE |-> MIN_SIZE]

\* no feature function is being applied by itself
FeaturesIdle ==
    /\ img_array = NoArray
    /\ fpc = "off"
    /\ fout = EmptyDict

\* no calls run concurrently
CallsIdle ==
    /\ cls = ClassAttributes
    /\ calls = <<>>
    /\ interleaved = FALSE

\* no call of the pipeline is running
PipelineIdle ==
    /\ op = "none"
    /\ pc = "idle"
    /\ image_data = NoImage
    /\ image = NoImage
    /\ metadata = EmptyDict
    /\ processed_data = NoImage
    /\ exc = ""
    /\ exc_type = ""
    /\ features = EmptyDict
    /\ ret = <<FALSE, "">>
    /\ trail = <<>>
    /\ npass = 0

\* no update is being handled and main.py has not been started
BotIdle ==
    /\ bpc = "idle"
    /\ update = NoUpdate
    /\ outbox = <<>>
    /\ hexc = ""
    /\ escaped = ""
    /\ invoked = <<>>
    /\ script = NotStarted

\* no tool is running and the tables are empty, but for one plant
StoreIdle ==
    /\ dpc = "idle"
    /\ dcall = NoCall
    /\ db = EmptyTables
    /\ tx = EmptyTables
    /\ dret = NoReturn

Init == PipelineIdle /\ FeaturesIdle /\ CallsIdle /\ BotIdle /\ StoreIdle

\* a caller awaits validate_plant_image(d); line 284 calls process_image(d)
CallValidate ==
    /\ pc = "idle"
    /\ op' = "validate"
    /\ pc' = "open"
    /\ \E d \in Inputs : image_data' = d
    /\ npass' = 1
    /\ trail' = <<"validate_plant_image", "process_image">>
    /\ UNCHANGED <<image, metadata, processed_data, exc, exc_type, features, ret>>
    /\ UNCHANGED <<fvars, cvars, bvars, dvars>>

\* a caller awaits process_image(d)
CallProcess ==
    /\ pc = "idle"
    /\ op' = "process"
    /\ pc' = "open"
    /\ \E d \in Inputs : image_data' = d
    /\ npass' = 1
    /\ trail' = <<"process_image">>
    /\ UNCHANGED <<image, metadata, processed_data, exc, exc_type, features, ret>>
    /\ UNCHANGED <<fvars, cvars, bvars, dvars>>

\* the caller feeds the bytes process_image returned to process_image again
CallProcessAgain ==
    /\ pc = "done"
    /\ op = "process"
    /\ exc = ""
    /\ npass < MaxPasses
    /\ pc' = "open"
    /\ image_data' = processed_data
    /\ npass' = npass + 1
    /\ image' = NoImage
    /\ metadata' = EmptyDict
    /\ processed_data' = NoImage
    /\ trail' = <<"process_image">>
    /\ UNCHANGED <<op, exc, exc_type, features, ret>>
    /\ UNCHANGED <<fvars, cvars, bvars, dvars>>

\* line 41: Image.open raises on a buffer it cannot identify
Open ==
    /\ pc = "open"
    /\ trail' = Append(trail, "open")
    /\ IF image_data.decodable
       THEN /\ image' = image_data
            /\ pc' = "format"
            /\ UNCHANGED <<exc, exc_type>>
       ELSE /\ exc' = CannotIdentify
            /\ exc_type' = UnidentifiedImageError
            /\ pc' = "except"
            /\ image' = image
    /\ UNCHANGED <<op, image_data, metadata, processed_data, features, ret, npass>>
    /\ UNCHANGED <<fvars, cvars, bvars, dvars>>

\* lines 44-45
ValidateFormat ==
    /\ pc = "format"
    /\ trail' = Append(trail, "format")
    /\ IF image.format \notin ALLOWED_FORMATS
       THEN exc' = Unsupported /\ exc_type' = ValueError /\ pc' = "except"
       ELSE UNCHANGED <<exc, exc_type>> /\ pc' = "size"
    /\ UNCHANGED <<op, image_data, image, metadata, processed_data, features, ret, npass>>
    /\ UNCHANGED <<fvars, cvars, bvars, dvars>>

\* lines 48-49
ValidateSize ==
    /\ pc = "size"
    /\ trail' = Append(trail, "size")
    /\ IF IsTooSmall(image.size)
       THEN exc' = TooSmall /\ exc_type' = ValueError /\ pc' = "except"
       ELSE UNCHANGED <<exc, exc_type>> /\ pc' = "metadata"
    /\ UNCHANGED <<op, image_data, image, metadata, processed_data, features, ret, npass>>
    /\ UNCHANGED <<fvars, cvars, bvars, dvars>>

\* lines 52-60; file_size and hash are those of the input bytes
GetMetadata ==
    /\ pc = "metadata"
    /\ trail' = Append(trail, "metadata")
    /\ metadata' = [original_format |-> image.format,
                    original_size |-> image.size,
                    mode |-> image.mode,
                    file_size |-> "len(image_data)",
                    hash |-> "md5(image_data)"]
    /\ pc' = "transpose"
    /\ UNCHANGED <<op, image_data, image, processed_data, exc, exc_type, features, ret, npass>>
    /\ UNCHANGED <<fvars, cvars, bvars, dvars>>

\* line 63
FixOrientation ==
    /\ pc = "transpose"
    /\ trail' = Append(trail, "transpose")
    /\ image' = ExifTranspose(image)
    /\ pc' = "convert"
    /\ UNCHANGED <<op, image_data, metadata, processed_data, exc, exc_type, features, ret, npass>>
    /\ UNCHANGED <<fvars, cvars, bvars, dvars>>

\* lines 66-68
ConvertToRGB ==
    /\ pc = "convert"
    /\ trail' = Append(trail, "convert")
    /\ IF image.mode \notin {"RGB", "L"}
       THEN /\ image' = [image EXCEPT !.mode = "RGB"]
            /\ metadata' = Put(metadata, "converted_to_rgb", TRUE)
       ELSE UNCHANGED <<image, metadata>>
    /\ pc' = "enhance"
    /\ UNCHANGED <<op, image_data, processed_data, exc, exc_type, features, ret, npass>>
    /\ UNCHANGED <<fvars, cvars, bvars, dvars>>

\* line 71
Enhance ==
    /\ pc = "enhance"
    /\ trail' = Append(trail, "enhance")
    /\ image' = EnhancePlantImage(image)
    /\ pc' = "resize"
    /\ UNCHANGED <<op, image_data, metadata, processed_data, exc, exc_type, features, ret, npass>>
    /\ UNCHANGED <<fvars, cvars, bvars, dvars>>

\* lines 74-77
Resize ==
    /\ pc = "resize"
    /\ trail' = Append(trail, "resize")
    /\ IF IsTooLarge(image.size)
       THEN /\ image' = [image EXCEPT !.size = Thumbnail(image.size, MAX_SIZE)]
            /\ metadata' = Put(Put(metadata, "resized", TRUE),
                               "new_size", Thumbnail(image.size, MAX_SIZE))
       ELSE UNCHANGED <<image, metadata>>
    /\ pc' = "save"
    /\ UNCHANGED <<op, image_data, processed_data, exc, exc_type, features, ret, npass>>
    /\ UNCHANGED <<fvars, cvars, bvars, dvars>>

\* lines 80-88: encode as JPEG and return (processed_data, metadata); in
\* validate_plant_image the next statement is line 287
Save ==
    /\ pc = "save"
    /\ trail' = Append(trail, "save")
    /\ \E px \in Encode(image.px, image.mode) :
          processed_data' = File("JPEG", image.mode, image.size, 1, px)
    /\ metadata' = Put(Put(metadata, "processed_size", "len(processed_data)"),
                       "compression_ratio", "len(processed_data) / len(image_data)")
    /\ pc' = IF op = "validate" THEN "extract" ELSE "done"
    /\ UNCHANGED <<op, image_data, image, exc, exc_type, features, ret, npass>>
    /\ UNCHANGED <<fvars, cvars, bvars, dvars>>

\* lines 90-92: every exception leaves process_image as a ValueError, with
\* nothing returned
ProcessExcept ==
    /\ pc = "except"
    /\ trail' = Append(trail, "except")
    /\ exc' = Wrap(exc)
    /\ exc_type' = ValueError
    /\ pc' = IF op = "validate" THEN "validate_except" ELSE "done"
    /\ UNCHANGED <<op, image_data, image, metadata, processed_data, features, ret, npass>>
    /\ UNCHANGED <<fvars, cvars, bvars, dvars>>

\* line 287, extract_plant_features (lines 122-150) on the processed bytes:
\* the features, or {} when anything in it raises (lines 148-150); `fault' is
\* such an exception, which the environment may cause on any bytes
ExtractFeatures ==
    /\ pc = "extract"
    /\ trail' = Append(trail, "extract_plant_features")
    /\ \E fault \in BOOLEAN :
          features' = IF fault \/ ~processed_data.decodable
                      THEN EmptyDict
                      ELSE Features(processed_data)
    /\ pc' = "rules"
    /\ UNCHANGED <<op, image_data, image, metadata, processed_data, exc, exc_type, ret, npass>>
    /\ UNCHANGED <<fvars, cvars, bvars, dvars>>

\* lines 289-302
CheckRules ==
    /\ pc = "rules"
    /\ trail' = Append(trail, "rules")
    /\ ret' = ValidateRules(features)
    /\ pc' = "done"
    /\ UNCHANGED <<op, image_data, image, metadata, processed_data, exc, exc_type, features, npass>>
    /\ UNCHANGED <<fvars, cvars, bvars, dvars>>

\* lines 304-306: return False, str(e)
ValidateExcept ==
    /\ pc = "validate_except"
    /\ trail' = Append(trail, "validate_except")
    /\ ret' = <<FALSE, exc>>
    /\ exc' = ""
    /\ exc_type' = ""
    /\ pc' = "done"
    /\ UNCHANGED <<op, image_data, image, metadata, processed_data, features, npass>>
    /\ UNCHANGED <<fvars, cvars, bvars, dvars>>

\* the call is over; nothing of it is kept
Finish ==
    /\ pc = "done"
    /\ op' = "none"
    /\ pc' = "idle"
    /\ image_data' = NoImage
    /\ image' = NoImage
    /\ metadata' = EmptyDict
    /\ processed_data' = NoImage
    /\ exc' = ""
    /\ exc_type' = ""
    /\ features' = EmptyDict
    /\ ret' = <<FALSE, "">>
    /\ trail' = <<>>
    /\ npass' = 0
    /\ UNCHANGED <<fvars, cvars, bvars, dvars>>

Next ==
    \/ CallValidate
    \/ CallProcess
    \/ CallProcessAgain
    \/ Open
    \/ ValidateFormat
    \/ ValidateSize
    \/ GetMetadata
    \/ FixOrientation
    \/ ConvertToRGB
    \/ Enhance
    \/ Resize
    \/ Save
    \/ ProcessExcept
    \/ ExtractFeatures
    \/ CheckRules
    \/ ValidateExcept
    \/ Finish

Spec == Init /\ [][Next]_allvars

-----------------------------------------------------------------------------
(* The feature functions on a pixel array, lines 153-243.  An array is     *)
(* np.array(image): ndim 3 (H x W x 3, uint8) for an RGB image, ndim 2     *)
(* (H x W) for a mode L image; px is its pixels row by row, the pixel of   *)
(* a two-dimensional array v written <<v, v, v>>.                          *)

\* the sum of a sequence of numbers
SumSeq(s) ==
    LET f[k \in 0..Len(s)] == IF k = 0 THEN 0 ELSE f[k - 1] + s[k]
    IN  f[Len(s)]

\* round(p / q) to the nearest integer, a tie to the even one
RoundHalfEven(p, q) ==
    LET fl == p \div q
        r == p - fl * q
    IN  IF 2 * r > q \/ (2 * r = q /\ fl % 2 = 1) THEN fl + 1 ELSE fl

\* round(sum / n, 2), in hundredths
Round2(sum, n) == RoundHalfEven(100 * sum, n)

\* round(count / total * 100, 1), in tenths of a percent
RoundPercent(count, total) == RoundHalfEven(1000 * count, total)

\* line 163: (pixels >> 2) << 2
Quantize(c) == <<(c[1] \div 4) * 4, (c[2] \div 4) * 4, (c[3] \div 4) * 4>>

\* the order np.unique(axis=0) gives the rows: lexicographic
ColourKey(c) == c[1] * 65536 + c[2] * 256 + c[3]

\* the colours by increasing frequency
GetDominantColorsAscending(arr, n_colors) ==
    IF arr.ndim # 3
    THEN <<>>
    ELSE LET unique == {Quantize(arr.px[k]) : k \in DOMAIN arr.px}
             counts == [u \in unique |->
                            Cardinality({k \in DOMAIN arr.px : Quantize(arr.px[k]) = u})]
             before(v, u) ==
                 \/ counts[v] < counts[u]
                 \/ counts[v] = counts[u] /\ ColourKey(v) < ColourKey(u)
             at(i) == CHOOSE u \in unique :
                          Cardinality({v \in unique : before(v, u)}) = i - 1
         IN  [i \in 1..Min(n_colors, Cardinality(unique)) |->
                 [color |-> at(i),
                  percentage |-> RoundPercent(counts[at(i)], Len(arr.px))]]

\* lines 153-179, _get_dominant_colors: the n_colors most frequent quantized
\* colours, most frequent first (np.argsort(-counts) leaves colours of equal
\* count in the order of np.unique), each with its share of the pixels
GetDominantColors(arr, n_colors) ==
    IF arr.ndim # 3
    THEN <<>>
    ELSE LET unique == {Quantize(arr.px[k]) : k \in DOMAIN arr.px}
             counts == [u \in unique |->
                            Cardinality({k \in DOMAIN arr.px : Quantize(arr.px[k]) = u})]
             before(v, u) ==
                 \/ counts[v] > counts[u]
                 \/ counts[v] = counts[u] /\ ColourKey(v) < ColourKey(u)
             at(i) == CHOOSE u \in unique :
                          Cardinality({v \in unique : before(v, u)}) = i - 1
         IN  [i \in 1..Min(n_colors, Cardinality(unique)) |->
                 [color |-> at(i),
                  percentage |-> RoundPercent(counts[at(i)], Len(arr.px))]]

\* lines 182-193, _calculate_green_ratio on an array
ArrayGreenRatio(arr) ==
    IF arr.ndim # 3
    THEN 0
    ELSE Round3(Cardinality({k \in DOMAIN arr.px : IsGreen(arr.px[k])}), Len(arr.px))

\* lines 196-207, _calculate_brown_ratio on an array
ArrayBrownRatio(arr) ==
    IF arr.ndim # 3
    THEN 0
    ELSE Round3(Cardinality({k \in DOMAIN arr.px : IsBrown(arr.px[k])}), Len(arr.px))

\* np.abs(np.diff(.)) of two neighbouring uint8 values a, b: the difference
\* b - a is a uint8 and wraps modulo 256, and np.abs leaves a uint8 as it is
AbsDiffUint8(a, b) == (b - a) % 256

\* the values of px, through `value', differenced along axis 0 (each pixel
\* and the one below it)
DiffAxis0(arr, value) ==
    [k \in 1..((arr.h - 1) * arr.w) |-> AbsDiffUint8(value[k], value[k + arr.w])]

\* the same along axis 1 (each pixel and the one to its right)
DiffAxis1(arr, value) ==
    [n \in 1..(arr.h * (arr.w - 1)) |->
        LET k == ((n - 1) \div (arr.w - 1)) * arr.w + ((n - 1) % (arr.w - 1)) + 1
        IN  AbsDiffUint8(value[k], value[k + 1])]

\* lines 210-225, _calculate_texture_complexity, in hundredths
CalculateTextureComplexity(arr) ==
    LET gray == [k \in DOMAIN arr.px |->
                    IF arr.ndim = 3 THEN Sum3(arr.px[k]) \div 3 ELSE arr.px[k][1]]
        grad_x == DiffAxis0(arr, gray)
        grad_y == DiffAxis1(arr, gray)
    IN  Round2(SumSeq(grad_x) * Len(grad_y) + SumSeq(grad_y) * Len(grad_x),
               2 * Len(grad_x) * Len(grad_y))

\* lines 228-243, _detect_leaf_edges; img_array[:, :, 1] of an array of two
\* dimensions raises IndexError
DetectLeafEdges(arr) ==
    IF arr.ndim # 3
    THEN [raised |-> "IndexError"]
    ELSE LET green == [k \in DOMAIN arr.px |-> arr.px[k][2]]
             edges == DiffAxis0(arr, green)
             edge_strength == <<SumSeq(edges), Len(edges)>>
         IN  [edge_strength |-> Round2(edge_strength[1], edge_strength[2]),
              has_clear_edges |-> FracGt(edge_strength, 20)]

\* the shapes <<H, W>> of the arrays
Shapes == {<<2, 2>>, <<2, 3>>, <<3, 2>>}

\* colours three at a time: steps of the green channel up and down, the
\* bounds of the green mask, and colours that quantize to the same colour
Palettes ==
    {{<<10, 10, 10>>, <<10, 20, 10>>, <<60, 60, 60>>},
     {<<0, 40, 0>>, <<0, 250, 0>>, <<0, 200, 0>>},
     {<<100, 120, 0>>, <<100, 121, 0>>, <<0, 255, 0>>},
     {<<0, 200, 0>>, <<1, 201, 3>>, <<150, 100, 50>>}}

\* six colours, distinct once quantized
Spectrum ==
    <<<<0, 200, 0>>, <<200, 0, 0>>, <<0, 0, 200>>,
      <<150, 100, 50>>, <<20, 20, 20>>, <<240, 240, 240>>>>

Array(ndim, shape, px) == [ndim |-> ndim, h |-> shape[1], w |-> shape[2], px |-> px]

\* np.array of RGB images and of mode L images, a few pixels each
Arrays ==
    UNION {{Array(3, s, px) : px \in [1..(s[1] * s[2]) -> P]} :
              s \in Shapes, P \in Palettes}
    \cup UNION {{Array(2, s, px) : px \in [1..(s[1] * s[2]) -> {Grey(10), Grey(20), Grey(60)}]} :
              s \in Shapes}
    \cup {Array(3, s, [k \in 1..6 |-> Spectrum[((k * m + o) % 6) + 1]]) :
              s \in {<<2, 3>>, <<3, 2>>}, m \in 1..3, o \in 0..5}

\* a feature function is called on an array
FeatureInit ==
    /\ PipelineIdle
    /\ CallsIdle
    /\ BotIdle
    /\ StoreIdle
    /\ img_array \in Arrays
    /\ fpc = "dominant_colors"
    /\ fout = EmptyDict

\* line 132
ApplyDominantColors ==
    /\ fpc = "dominant_colors"
    /\ fout' = Put(fout, "dominant_colors", GetDominantColors(img_array, 5))
    /\ fpc' = "green_ratio"
    /\ UNCHANGED <<vars, cvars, bvars, dvars, img_array>>

\* line 135
ApplyGreenRatio ==
    /\ fpc = "green_ratio"
    /\ fout' = Put(fout, "green_ratio", ArrayGreenRatio(img_array))
    /\ fpc' = "brown_ratio"
    /\ UNCHANGED <<vars, cvars, bvars, dvars, img_array>>

\* line 136
ApplyBrownRatio ==
    /\ fpc = "brown_ratio"
    /\ fout' = Put(fout, "brown_ratio", ArrayBrownRatio(img_array))
    /\ fpc' = "texture_complexity"
    /\ UNCHANGED <<vars, cvars, bvars, dvars, img_array>>

\* line 137
ApplyTextureComplexity ==
    /\ fpc = "texture_complexity"
    /\ fout' = Put(fout, "texture_complexity", CalculateTextureComplexity(img_array))
    /\ fpc' = "leaf_edge_detection"
    /\ UNCHANGED <<vars, cvars, bvars, dvars, img_array>>

\* line 138
ApplyLeafEdges ==
    /\ fpc = "leaf_edge_detection"
    /\ fout' = Put(fout, "leaf_edge_detection", DetectLeafEdges(img_array))
    /\ fpc' = "done"
    /\ UNCHANGED <<vars, cvars, bvars, dvars, img_array>>

FeatureNext ==
    \/ ApplyDominantColors
    \/ ApplyGreenRatio
    \/ ApplyBrownRatio
    \/ ApplyTextureComplexity
    \/ ApplyLeafEdges

FeatureSpec == FeatureInit /\ [][FeatureNext]_allvars

-----------------------------------------------------------------------------
(* Several calls at once.  validate_plant_image, process_image and         *)
(* extract_plant_features keep their state in locals; what they share is   *)
(* the class attributes, which lines 44, 48 and 74-75 read.  Each caller   *)
(* runs one call; the calls interleave statement by statement.             *)

\* how many calls run at once
MaxCallers == 2

Callers == 1..MaxCallers

\* the locals of a call that has not started
IdleCall ==
    [op |-> "none", pc |-> "idle", image_data |-> NoImage, image |-> NoImage,
     metadata |-> EmptyDict, processed_data |-> NoImage, exc |-> "",
     features |-> EmptyDict, ret |-> <<FALSE, "">>]

\* the bytes the concurrent calls are given
ConcurrentInputs ==
    {File("PNG", "RGBA", <<1000, 1000>>, 1, Uniform(AllGreen)),
     File("JPEG", "RGB", <<2000, 1500>>, 6, Uniform(AllGreen)),
     File("PNG", "RGB", <<99, 100>>, 1, Uniform(AllGreen)),
     File("GIF", "P", MIN_SIZE, 1, Uniform(AllGreen))}

\* process_image run by itself, as a function of the bytes: the message of
\* the ValueError it raises, or the bytes and the metadata it returns
ProcessAlone(d) ==
    IF ~d.decodable
    THEN [raised |-> Wrap(CannotIdentify), processed_data |-> NoImage, metadata |-> EmptyDict]
    ELSE IF d.format \notin ALLOWED_FORMATS
    THEN [raised |-> Wrap(Unsupported), processed_data |-> NoImage, metadata |-> EmptyDict]
    ELSE IF IsTooSmall(d.size)
    THEN [raised |-> Wrap(TooSmall), processed_data |-> NoImage, metadata |-> EmptyDict]
    ELSE LET m0 == [original_format |-> d.format, original_size |-> d.size,
                    mode |-> d.mode, file_size |-> "len(image_data)",
                    hash |-> "md5(image_data)"]
             transposed == ExifTranspose(d)
             convert == transposed.mode \notin {"RGB", "L"}
             converted == IF convert THEN [transposed EXCEPT !.mode = "RGB"] ELSE transposed
             m1 == IF convert THEN Put(m0, "converted_to_rgb", TRUE) ELSE m0
             enhanced == EnhancePlantImage(converted)
             resize == IsTooLarge(enhanced.size)
             new_size == IF resize THEN Thumbnail(enhanced.size, MAX_SIZE) ELSE enhanced.size
             m2 == IF resize THEN Put(Put(m1, "resized", TRUE), "new_size", new_size) ELSE m1
         IN  [raised |-> "",
              processed_data |->
                  File("JPEG", enhanced.mode, new_size, 1,
                       CHOOSE px \in Encode(enhanced.px, enhanced.mode) : TRUE),
              metadata |->
                  Put(Put(m2, "processed_size", "len(processed_data)"),
                      "compression_ratio", "len(processed_data) / len(image_data)")]

\* extract_plant_features run by itself
ExtractAlone(d) == IF d.decodable THEN Features(d) ELSE EmptyDict

\* validate_plant_image run by itself
ValidateAlone(d) ==
    IF ProcessAlone(d).raised # ""
    THEN <<FALSE, ProcessAlone(d).raised>>
    ELSE ValidateRules(ExtractAlone(ProcessAlone(d).processed_data))

\* a call is between its first statement and its return
InFlight(c) == calls[c].pc \notin {"idle", "done"}

\* caller c takes a step that leaves its locals as `locals'
Step(c, locals) ==
    /\ calls' = [calls EXCEPT ![c] = locals]
    /\ interleaved' = (interleaved \/ \E o \in Callers \ {c} : InFlight(o))

ConcurrentInit ==
    /\ PipelineIdle
    /\ FeaturesIdle
    /\ BotIdle
    /\ StoreIdle
    /\ cls = ClassAttributes
    /\ calls = [c \in Callers |-> IdleCall]
    /\ interleaved = FALSE

\* caller c awaits one of the three entry points on some bytes
CStart(c) ==
    /\ calls[c].pc = "idle"
    /\ \E o \in {"validate", "process", "extract"} : \E d \in ConcurrentInputs :
          Step(c, [calls[c] EXCEPT !.op = o, !.image_data = d,
                                   !.processed_data = IF o = "extract" THEN d ELSE NoImage,
                                   !.pc = IF o = "extract" THEN "extract" ELSE "open"])
    /\ UNCHANGED <<vars, fvars, bvars, dvars, cls>>

\* line 41
COpen(c) ==
    /\ calls[c].pc = "open"
    /\ Step(c, IF calls[c].image_data.decodable
               THEN [calls[c] EXCEPT !.image = calls[c].image_data, !.pc = "format"]
               ELSE [calls[c] EXCEPT !.exc = CannotIdentify, !.pc = "except"])
    /\ UNCHANGED <<vars, fvars, bvars, dvars, cls>>

\* lines 44-45: reads cls.ALLOWED_FORMATS
CFormat(c) ==
    /\ calls[c].pc = "format"
    /\ Step(c, IF calls[c].image.format \notin cls.ALLOWED_FORMATS
               THEN [calls[c] EXCEPT !.exc = Unsupported, !.pc = "except"]
               ELSE [calls[c] EXCEPT !.pc = "size"])
    /\ UNCHANGED <<vars, fvars, bvars, dvars, cls>>

\* lines 48-49: reads cls.MIN_SIZE
CSize(c) ==
    /\ calls[c].pc = "size"
    /\ Step(c, IF \/ calls[c].image.size[1] < cls.MIN_SIZE[1]
                  \/ calls[c].image.size[2] < cls.MIN_SIZE[2]
               THEN [calls[c] EXCEPT !.exc = TooSmall, !.pc = "except"]
               ELSE [calls[c] EXCEPT !.pc = "transform"])
    /\ UNCHANGED <<vars, fvars, bvars, dvars, cls>>

\* lines 52-71: the metadata, the orientation, the mode, the enhancement
CTransform(c) ==
    /\ calls[c].pc = "transform"
    /\ LET im == calls[c].image
           m0 == [original_format |-> im.format, original_size |-> im.size,
                  mode |-> im.mode, file_size |-> "len(image_data)",
                  hash |-> "md5(image_data)"]
           transposed == ExifTranspose(im)
           convert == transposed.mode \notin {"RGB", "L"}
           converted == IF convert THEN [transposed EXCEPT !.mode = "RGB"] ELSE transposed
       IN  Step(c, [calls[c] EXCEPT
                       !.image = EnhancePlantImage(converted),
                       !.metadata = IF convert THEN Put(m0, "converted_to_rgb", TRUE) ELSE m0,
                       !.pc = "resize"])
    /\ UNCHANGED <<vars, fvars, bvars, dvars, cls>>

\* the resize remembering the size it produced in the class attribute
CResizeAdapting(c) ==
    /\ calls[c].pc = "resize"
    /\ LET im == calls[c].image
           large == im.size[1] > cls.MAX_SIZE[1] \/ im.size[2] > cls.MAX_SIZE[2]
           new_size == Thumbnail(im.size, cls.MAX_SIZE)
       IN  /\ Step(c, IF large
                      THEN [calls[c] EXCEPT
                               !.image = [im EXCEPT !.size = new_size],
                               !.metadata = Put(Put(@, "resized", TRUE), "new_size", new_size),
                               !.pc = "save"]
                      ELSE [calls[c] EXCEPT !.pc = "save"])
           /\ cls' = IF large THEN [cls EXCEPT !.MAX_SIZE = new_size] ELSE cls
    /\ UNCHANGED <<vars, fvars, bvars, dvars>>

\* lines 74-77: reads cls.MAX_SIZE
CResize(c) ==
    /\ calls[c].pc = "resize"
    /\ LET im == calls[c].image
           large == im.size[1] > cls.MAX_SIZE[1] \/ im.size[2] > cls.MAX_SIZE[2]
           new_size == Thumbnail(im.size, cls.MAX_SIZE)
       IN  /\ Step(c, IF large
                      THEN [calls[c] EXCEPT
                               !.image = [im EXCEPT !.size = new_size],
                               !.metadata = Put(Put(@, "resized", TRUE), "new_size", new_size),
                               !.pc = "save"]
                      ELSE [calls[c] EXCEPT !.pc = "save"])
           /\ cls' = cls
    /\ UNCHANGED <<vars, fvars, bvars, dvars>>

\* lines 80-88
CSave(c) ==
    /\ calls[c].pc = "save"
    /\ \E px \in Encode(calls[c].image.px, calls[c].image.mode) :
          Step(c, [calls[c] EXCEPT
                      !.processed_data =
                          File("JPEG", calls[c].image.mode, calls[c].image.size, 1, px),
                      !.metadata =
                          Put(Put(@, "processed_size", "len(processed_data)"),
                              "compression_ratio", "len(processed_data) / len(image_data)"),
                      !.pc = IF calls[c].op = "validate" THEN "extract" ELSE "done"])
    /\ UNCHANGED <<vars, fvars, bvars, dvars, cls>>

\* lines 90-92, and lines 304-306 when validate_plant_image made the call
CExcept(c) ==
    /\ calls[c].pc = "except"
    /\ Step(c, IF calls[c].op = "validate"
               THEN [calls[c] EXCEPT !.ret = <<FALSE, Wrap(calls[c].exc)>>,
                                     !.exc = "", !.pc = "done"]
               ELSE [calls[c] EXCEPT !.exc = Wrap(@), !.pc = "done"])
    /\ UNCHANGED <<vars, fvars, bvars, dvars, cls>>

\* lines 122-150
CExtract(c) ==
    /\ calls[c].pc = "extract"
    /\ Step(c, [calls[c] EXCEPT
                   !.features = IF calls[c].processed_data.decodable
                                THEN Features(calls[c].processed_data)
                                ELSE EmptyDict,
                   !.pc = IF calls[c].op = "validate" THEN "rules" ELSE "done"])
    /\ UNCHANGED <<vars, fvars, bvars, dvars, cls>>

\* lines 289-302
CRules(c) ==
    /\ calls[c].pc = "rules"
    /\ Step(c, [calls[c] EXCEPT !.ret = ValidateRules(calls[c].features), !.pc = "done"])
    /\ UNCHANGED <<vars, fvars, bvars, dvars, cls>>

ConcurrentNext ==
    \/ \E c \in Callers : CStart(c)
    \/ \E c \in Callers : COpen(c)
    \/ \E c \in Callers : CFormat(c)
    \/ \E c \in Callers : CSize(c)
    \/ \E c \in Callers : CTransform(c)
    \/ \E c \in Callers : CResize(c)
    \/ \E c \in Callers : CSave(c)
    \/ \E c \in Callers : CExcept(c)
    \/ \E c \in Callers : CExtract(c)
    \/ \E c \in Callers : CRules(c)

ConcurrentSpec == ConcurrentInit /\ [][ConcurrentNext]_allvars

-----------------------------------------------------------------------------
(* The Telegram bot: handlers/telegram_handler.py and main.py.  A handler   *)
(* runs on one update at a time; `outbox' lists the Telegram calls it has   *)
(* made and `invoked' its calls to the pipeline and to the agent.  The      *)
(* texts the bot sends are named by what they say.  A callback_data string  *)
(* is held as its segments between underscores, as str.split("_") gives     *)
(* them: "plant_water_new" is <<"plant", "water", "new">>.                  *)

\* config/settings.py line 49
MAX_IMAGE_SIZE == 10 * 1024 * 1024

\* utils/validators.py lines 47-65
validate_image_size(image_size) ==
    IF image_size <= 0
    THEN <<FALSE, "Invalid image size">>
    ELSE IF image_size > MAX_IMAGE_SIZE
    THEN <<FALSE, "Image too large (max 10.0MB)">>
    ELSE <<TRUE, None>>

\* the attributes class ImageProcessor defines (image_processing.py lines
\* 18-306); it has no other base class than object
ImageProcessorAttributes ==
    {"MAX_SIZE", "ALLOWED_FORMATS", "MIN_SIZE", "process_image", "_enhance_plant_image",
     "extract_plant_features", "_get_dominant_colors", "_calculate_green_ratio",
     "_calculate_brown_ratio", "_calculate_texture_complexity", "_detect_leaf_edges",
     "_detect_visual_issues", "validate_plant_image"}

\* the lengths in bytes of the buffers download_as_bytearray gives
Lengths == {0, 204800, MAX_IMAGE_SIZE, MAX_IMAGE_SIZE + 1}

\* the photos users send: a plant, a grey wall, a thumbnail, a GIF and bytes
\* that are no image
PhotoFiles ==
    ConcurrentInputs \cup {File("PNG", "RGB", MIN_SIZE, 1, Uniform(Grey(128))), Malformed}

\* photo messages; an empty buffer is no image
Photos ==
    {u \in {[kind |-> "photo", file |-> d, length |-> n, caption |-> c] :
                d \in PhotoFiles, n \in Lengths, c \in {"", "yellow leaves"}} :
        u.length = 0 => ~u.file.decodable}

\* lines 203-212: the callback_data of the main keyboard
MainKeyboard ==
    {<<"action", "photo">>, <<"action", "my", "plants">>, <<"action", "tip">>,
     <<"action", "encyclopedia">>, <<"action", "reminders">>, <<"action", "help">>}

\* lines 385-390: the callback_data of the keyboard under a diagnosis
PlantKeyboard ==
    {<<"plant", "water", "new">>, <<"plant", "save", "new">>,
     <<"action", "photo">>, <<"action", "menu">>}

\* every callback_data the bot attaches to a button
AttachedCallbackData == MainKeyboard \cup PlantKeyboard

\* core/agent.py line 136, the reply when anything raised
Apology == "I'm sorry, I encountered an error processing your request. Please try again."

\* core/agent.py lines 127-129, the reply when the response has no messages
\* (a Russian text in the source)
Fallback == "Sorry, I could not process your request. Please try again."

\* what self.agent.run does (line 120): it raises, or answers with no
\* messages, or with messages the last of which holds the text
AgentRuns == {"raises", "no_messages", "text"}

\* core/agent.py lines 98-136, the body of process_message: the reply for
\* each way the run can go
process_message(run) ==
    CASE run = "raises" -> Apology
      [] run = "no_messages" -> Fallback
      [] OTHER -> "response.messages[-1].content"

\* core/agent.py lines 138-163: analyze_plant_image is process_message on a
\* fixed request
analyze_plant_image(run) == process_message(run)

\* a Telegram call of the handler
Sent(call, text, detail, keyboard) ==
    [call |-> call, text |-> text, detail |-> detail, keyboard |-> keyboard]

\* a call of the handler to the pipeline or to the agent
Invoked(fn, arg) == [fn |-> fn, arg |-> arg]

\* the state a handler leaves the bot in: polling again, or idle when the
\* handler was called without main.py
Waiting == IF script = NotStarted THEN "idle" ELSE "polling"

\* the dispatcher calls handle_photo on a photo message (lines 76-79, 329-333)
ReceivePhoto ==
    /\ bpc \in {"idle", "polling"}
    /\ bpc' = "photo:download"
    /\ \E u \in Photos : update' = u
    /\ outbox' = <<>>
    /\ invoked' = <<>>
    /\ hexc' = ""
    /\ escaped' = ""
    /\ UNCHANGED <<vars, fvars, cvars, dvars, script>>

\* lines 337-341: the typing indicator and the download; Telegram may fail
PhotoDownload ==
    /\ bpc = "photo:download"
    /\ \E fault \in BOOLEAN :
          IF fault
          THEN /\ hexc' = "TelegramError"
               /\ bpc' = "photo:except"
               /\ UNCHANGED outbox
          ELSE /\ outbox' = Append(outbox, Sent("send_action", "typing", "", {}))
               /\ bpc' = "photo:validate"
               /\ UNCHANGED hexc
    /\ UNCHANGED <<vars, fvars, cvars, dvars, update, escaped, invoked, script>>

\* lines 344-347: validate_plant_image on the downloaded bytes
PhotoValidate ==
    /\ bpc = "photo:validate"
    /\ invoked' = Append(invoked, Invoked("validate_plant_image", update.length))
    /\ bpc' = IF ValidateAlone(update.file)[1] THEN "photo:process" ELSE "photo:reject"
    /\ UNCHANGED <<vars, fvars, cvars, dvars, update, outbox, hexc, escaped, script>>

\* the rejection without its return statement
PhotoRejectFallsThrough ==
    /\ bpc = "photo:reject"
    /\ outbox' = Append(outbox, Sent("reply_text", "rejection", ValidateAlone(update.file)[2], {}))
    /\ bpc' = "photo:process"
    /\ UNCHANGED <<vars, fvars, cvars, dvars, update, hexc, escaped, invoked, script>>

\* lines 347-355: the rejection, with the reason, and return
PhotoReject ==
    /\ bpc = "photo:reject"
    /\ outbox' = Append(outbox, Sent("reply_text", "rejection", ValidateAlone(update.file)[2], {}))
    /\ bpc' = "return"
    /\ UNCHANGED <<vars, fvars, cvars, dvars, update, hexc, escaped, invoked, script>>

\* line 358: process_image on the same bytes
PhotoProcess ==
    /\ bpc = "photo:process"
    /\ invoked' = Append(invoked, Invoked("process_image", update.length))
    /\ IF ProcessAlone(update.file).raised # ""
       THEN /\ hexc' = ValueError
            /\ bpc' = "photo:except"
       ELSE /\ bpc' = "photo:save"
            /\ UNCHANGED hexc
    /\ UNCHANGED <<vars, fvars, cvars, dvars, update, outbox, escaped, script>>

\* lines 361-398: processor.save_image is looked up on the ImageProcessor
\* instance; were it found, the handler would announce the analysis, ask the
\* agent and send its answer with the plant keyboard
PhotoSaveAndAnalyze ==
    /\ bpc = "photo:save"
    /\ IF "save_image" \notin ImageProcessorAttributes
       THEN /\ hexc' = "AttributeError"
            /\ bpc' = "photo:except"
            /\ UNCHANGED <<outbox, invoked>>
       ELSE /\ \E run \in AgentRuns :
                  outbox' = outbox \o
                      <<Sent("reply_text", "analysing", "", {}),
                        Sent("reply_text", analyze_plant_image(run), "", PlantKeyboard)>>
            /\ invoked' = invoked \o
                  <<Invoked("save_image", update.length),
                    Invoked("analyze_plant_image", update.caption)>>
            /\ bpc' = "return"
            /\ UNCHANGED hexc
    /\ UNCHANGED <<vars, fvars, cvars, dvars, update, escaped, script>>

\* lines 400-405: every exception of the try block is logged and answered
\* with the generic error text
PhotoExcept ==
    /\ bpc = "photo:except"
    /\ outbox' = Append(outbox, Sent("reply_text", "generic_error", "", {}))
    /\ hexc' = ""
    /\ bpc' = "return"
    /\ UNCHANGED <<vars, fvars, cvars, dvars, update, escaped, invoked, script>>

\* the dispatcher calls handle_callback_query on a button press (lines 92-94,
\* 217-222); the data is that of a button the bot made
ReceiveCallback ==
    /\ bpc \in {"idle", "polling"}
    /\ bpc' = "callback:answer"
    /\ \E data \in AttachedCallbackData : update' = [kind |-> "callback", data |-> data]
    /\ outbox' = <<>>
    /\ invoked' = <<>>
    /\ hexc' = ""
    /\ escaped' = ""
    /\ UNCHANGED <<vars, fvars, cvars, dvars, script>>

\* line 225
CallbackAnswer ==
    /\ bpc = "callback:answer"
    /\ outbox' = Append(outbox, Sent("answer", "", "", {}))
    /\ bpc' = "callback:act"
    /\ UNCHANGED <<vars, fvars, cvars, dvars, update, hexc, escaped, invoked, script>>

\* the text lines 228-297 put in the message for the data, when the agent's
\* reply is `reply'; "" when no branch edits the message
EditFor(data, reply) ==
    CASE data = <<"action", "photo">> -> "send a photo"
      [] data = <<"action", "my", "plants">> -> reply
      [] data = <<"action", "tip">> -> reply
      [] data = <<"action", "encyclopedia">> -> "encyclopedia"
      [] data = <<"action", "reminders">> -> "reminders"
      [] data = <<"action", "help">> -> "help"
      [] data[1] = "plant" /\ Len(data) >= 3 /\ data[2] = "water" -> reply
      [] data[1] = "plant" /\ Len(data) >= 3 /\ data[2] = "diagnose" -> "send a photo of the plant"
      [] OTHER -> ""

\* the branches of lines 228-297 that ask the agent
AsksAgent(data) ==
    \/ data \in {<<"action", "my", "plants">>, <<"action", "tip">>}
    \/ data[1] = "plant" /\ Len(data) >= 3 /\ data[2] = "water"

\* lines 228-297: the branch of the data; "plant_" data with fewer than three
\* segments raises IndexError at line 285, and nothing catches it
CallbackAct ==
    /\ bpc = "callback:act"
    /\ bpc' = "return"
    /\ LET data == update.data
       IN  IF data[1] = "plant" /\ Len(data) = 2
           THEN /\ escaped' = "IndexError"
                /\ UNCHANGED <<outbox, invoked>>
           ELSE /\ \E run \in AgentRuns :
                      outbox' = IF EditFor(data, process_message(run)) = ""
                                THEN outbox
                                ELSE Append(outbox,
                                            Sent("edit_message_text",
                                                 EditFor(data, process_message(run)), "", {}))
                /\ invoked' = IF AsksAgent(data)
                              THEN Append(invoked, Invoked("process_message", "request"))
                              ELSE invoked
                /\ UNCHANGED escaped
    /\ UNCHANGED <<vars, fvars, cvars, dvars, update, hexc, script>>

\* the dispatcher calls handle_text on a text message (lines 82-84, 407-412)
ReceiveText ==
    /\ bpc \in {"idle", "polling"}
    /\ bpc' = "text:ask"
    /\ update' = [kind |-> "text", text |-> "why do the leaves turn yellow?"]
    /\ outbox' = <<>>
    /\ invoked' = <<>>
    /\ hexc' = ""
    /\ escaped' = ""
    /\ UNCHANGED <<vars, fvars, cvars, dvars, script>>

\* lines 415-423: the typing indicator, the agent's reply, sent as it is
TextAnswer ==
    /\ bpc = "text:ask"
    /\ \E run \in AgentRuns :
          outbox' = outbox \o <<Sent("send_action", "typing", "", {}),
                                Sent("reply_text", process_message(run), "", {})>>
    /\ invoked' = Append(invoked, Invoked("process_message", update.text))
    /\ bpc' = "return"
    /\ UNCHANGED <<vars, fvars, cvars, dvars, update, hexc, escaped, script>>

\* the dispatcher calls handle_my_plants on /my_plants (lines 74, 157-161)
ReceiveMyPlants ==
    /\ bpc \in {"idle", "polling"}
    /\ bpc' = "my_plants:ask"
    /\ update' = [kind |-> "command", text |-> "/my_plants"]
    /\ outbox' = <<>>
    /\ invoked' = <<>>
    /\ hexc' = ""
    /\ escaped' = ""
    /\ UNCHANGED <<vars, fvars, cvars, dvars, script>>

\* lines 164-169
MyPlantsAnswer ==
    /\ bpc = "my_plants:ask"
    /\ \E run \in AgentRuns :
          outbox' = Append(outbox, Sent("reply_text", process_message(run), "", {}))
    /\ invoked' = Append(invoked, Invoked("process_message", "Show me my registered plants"))
    /\ bpc' = "return"
    /\ UNCHANGED <<vars, fvars, cvars, dvars, update, hexc, escaped, script>>

\* the handler has returned (or raised); the bot waits for the next update
HandlerReturn ==
    /\ bpc = "return"
    /\ bpc' = Waiting
    /\ update' = NoUpdate
    /\ outbox' = <<>>
    /\ invoked' = <<>>
    /\ hexc' = ""
    /\ escaped' = ""
    /\ UNCHANGED <<vars, fvars, cvars, dvars, script>>

(* main.py.  Its statements run in order.  It is started as a script        *)
(* (python main.py, __name__ is "__main__") or imported by a program that   *)
(* then calls main().  The import of core.agent finds the file of this      *)
(* repository, which does not compile (after the system prompt, closed on   *)
(* line 51, lines 53-59 are stray text ending in three quotes: Python       *)
(* raises SyntaxError), or a module registered under that name beforehand,  *)
(* as a test does with a double.                                            *)

\* main.py is started
Launch ==
    /\ bpc = "idle"
    /\ script = NotStarted
    /\ bpc' = "main:import"
    /\ \E launch \in {"script", "imported"}, core_agent \in {"repository", "double"} :
          script' = [launch |-> launch, core_agent |-> core_agent, attached |-> {},
                     done |-> <<>>]
    /\ UNCHANGED <<vars, fvars, cvars, dvars, update, outbox, hexc, escaped, invoked>>

\* main.py lines 1-6 (and telegram_handler.py line 24): the imports
ImportModules ==
    /\ bpc = "main:import"
    /\ IF script.core_agent = "repository"
       THEN /\ escaped' = "SyntaxError"
            /\ bpc' = "exited"
            /\ UNCHANGED script
       ELSE /\ script' = [script EXCEPT !.done = Append(@, "import")]
            /\ bpc' = "main:guard"
            /\ UNCHANGED escaped
    /\ UNCHANGED <<vars, fvars, cvars, dvars, update, outbox, hexc, invoked>>

\* main.py lines 9-34: main is defined, and called at once when the file
\* runs as a script
MainGuard ==
    /\ bpc = "main:guard"
    /\ bpc' = IF script.launch = "script" THEN "main:agent" ELSE "main:attach_run"
    /\ UNCHANGED <<vars, fvars, cvars, dvars, update, outbox, hexc, escaped, invoked, script>>

\* main.py lines 11-18
CreateAgent ==
    /\ bpc = "main:agent"
    /\ script' = [script EXCEPT !.done = Append(@, "agent")]
    /\ bpc' = "main:bot"
    /\ UNCHANGED <<vars, fvars, cvars, dvars, update, outbox, hexc, escaped, invoked>>

\* main.py line 21
CreateBot ==
    /\ bpc = "main:bot"
    /\ script' = [script EXCEPT !.done = Append(@, "bot")]
    /\ bpc' = "main:run"
    /\ UNCHANGED <<vars, fvars, cvars, dvars, update, outbox, hexc, escaped, invoked>>

\* main.py line 24: bot.run() looks run up on TelegramBot, whose class body
\* (telegram_handler.py lines 29-423) defines neither run nor _run_polling
BotRun ==
    /\ bpc = "main:run"
    /\ IF {"run", "_run_polling"} \subseteq script.attached
       THEN /\ bpc' = "polling:build"
            /\ UNCHANGED hexc
       ELSE /\ hexc' = "AttributeError"
            /\ bpc' = "main:fatal"
    /\ UNCHANGED <<vars, fvars, cvars, dvars, update, outbox, escaped, invoked, script>>

\* main.py lines 28-30: the fatal-error branch logs and raises again
Fatal ==
    /\ bpc = "main:fatal"
    /\ script' = [script EXCEPT !.done = Append(@, "fatal")]
    /\ escaped' = hexc
    /\ hexc' = ""
    /\ bpc' = "exited"
    /\ UNCHANGED <<vars, fvars, cvars, dvars, update, outbox, invoked>>

\* main.py line 38
AttachRun ==
    /\ bpc = "main:attach_run"
    /\ script' = [script EXCEPT !.attached = @ \cup {"run"}]
    /\ bpc' = "main:attach_run_polling"
    /\ UNCHANGED <<vars, fvars, cvars, dvars, update, outbox, hexc, escaped, invoked>>

\* main.py lines 41-48; the module is now imported, and the importer calls
\* main()
AttachRunPolling ==
    /\ bpc = "main:attach_run_polling"
    /\ script' = [script EXCEPT !.attached = @ \cup {"_run_polling"}]
    /\ bpc' = "main:agent"
    /\ UNCHANGED <<vars, fvars, cvars, dvars, update, outbox, hexc, escaped, invoked>>

\* main.py lines 43-44 and telegram_handler.py lines 70-94
RegisterHandlers ==
    /\ bpc = "polling:build"
    /\ script' = [script EXCEPT !.done = Append(@, "handlers")]
    /\ bpc' = "polling:commands"
    /\ UNCHANGED <<vars, fvars, cvars, dvars, update, outbox, hexc, escaped, invoked>>

\* main.py lines 45-46 and telegram_handler.py lines 96-103: the commands
\* are set and run_polling blocks, dispatching updates to the handlers
StartPolling ==
    /\ bpc = "polling:commands"
    /\ script' = [script EXCEPT !.done = @ \o <<"commands", "polling">>]
    /\ bpc' = "polling"
    /\ UNCHANGED <<vars, fvars, cvars, dvars, update, outbox, hexc, escaped, invoked>>

BotNext ==
    \/ ReceivePhoto
    \/ PhotoDownload
    \/ PhotoValidate
    \/ PhotoReject
    \/ PhotoProcess
    \/ PhotoSaveAndAnalyze
    \/ PhotoExcept
    \/ ReceiveCallback
    \/ CallbackAnswer
    \/ CallbackAct
    \/ ReceiveText
    \/ TextAnswer
    \/ ReceiveMyPlants
    \/ MyPlantsAnswer
    \/ HandlerReturn
    \/ Launch
    \/ ImportModules
    \/ MainGuard
    \/ CreateAgent
    \/ CreateBot
    \/ BotRun
    \/ Fatal
    \/ AttachRun
    \/ AttachRunPolling
    \/ RegisterHandlers
    \/ StartPolling

\* the bot by itself: the pipeline, the feature functions and the tools idle
BotSpec == Init /\ [][BotNext]_allvars

-----------------------------------------------------------------------------
(* The database tools: tools/user_management.py on the tables of            *)
(* database/models.py.  A tool runs inside `async with get_db_session()     *)
(* as db': `tx' is what that session sees, `db' what is committed.  The     *)
(* row id of a user is its position in `users'; a user row holds the        *)
(* telegram_id.  Ids are small integers, and a key handed to db.get as a    *)
(* string is compared by its value.                                         *)

\* the most Message rows, and the most Reminder rows, the tables hold
MaxMessages == 2

MaxReminders == 1

\* telegram ids of users and ids of sessions
UserIds == {1, 2}

SessionIds == {1, 2}

\* session_data.messages
MessageLists == {<<>>, <<"hi">>, <<"hi", "thanks">>}

\* plant_id as the caller gives it: none, the id of a plant, no number
PlantIds == {None, "1", "x"}

\* the rows of a table (a sequence) that satisfy a test on one column
UsersWith(t, telegram_id) == {i \in DOMAIN t.users : t.users[i] = telegram_id}

MessagesOf(t, session_id) ==
    {i \in DOMAIN t.messages : t.messages[i].session_id = session_id}

\* models.py lines 73-83: a Session row
SessionRow(user_id, messages_count) == [user_id |-> user_id, messages_count |-> messages_count]

\* models.py lines 90-102: a Message row
MessageRow(session_id, content) == [session_id |-> session_id, content |-> content]

\* models.py lines 128-142: a Reminder row
ReminderRow(user_id, plant_id, type, status) ==
    [user_id |-> user_id, plant_id |-> plant_id, type |-> type, status |-> status]

\* user_management.py lines 54-63: the agent calls save_user_session
CallSaveSession ==
    /\ dpc = "idle"
    /\ dpc' = "save:user"
    /\ \E user_id \in UserIds, session_id \in SessionIds, messages \in MessageLists :
          /\ Len(db.messages) + Len(messages) <= MaxMessages
          /\ dcall' = [tool |-> "save_user_session", user_id |-> user_id,
                       session_id |-> session_id, messages |-> messages, user |-> 0]
    /\ tx' = db
    /\ dret' = NoReturn
    /\ UNCHANGED <<vars, fvars, cvars, bvars, db>>

\* lines 64-73: db.get(User, user_id) looks the user up by primary key, the
\* row id; when no row has that id a User with telegram_id = user_id is
\* added and flushed, which the unique index on telegram_id (models.py line
\* 29) refuses when a row holds that telegram_id already
SaveGetUser ==
    /\ dpc = "save:user"
    /\ IF dcall.user_id \in DOMAIN tx.users
       THEN /\ dcall' = [dcall EXCEPT !.user = dcall.user_id]
            /\ dpc' = "save:session"
            /\ UNCHANGED tx
       ELSE IF UsersWith(tx, dcall.user_id) # {}
       THEN /\ dpc' = "save:except"
            /\ UNCHANGED <<dcall, tx>>
       ELSE /\ tx' = [tx EXCEPT !.users = Append(@, dcall.user_id)]
            /\ dcall' = [dcall EXCEPT !.user = Len(tx.users) + 1]
            /\ dpc' = "save:session"
    /\ UNCHANGED <<vars, fvars, cvars, bvars, db, dret>>

\* lines 76-89: the session is created with messages_count =
\* len(session_data.messages), or its messages_count is set to that
SaveUpsertSession ==
    /\ dpc = "save:session"
    /\ tx' = [tx EXCEPT !.sessions =
                 IF dcall.session_id \in DOMAIN @
                 THEN [@ EXCEPT ![dcall.session_id].messages_count = Len(dcall.messages)]
                 ELSE Put(@, dcall.session_id, SessionRow(dcall.user, Len(dcall.messages)))]
    /\ dpc' = "save:messages"
    /\ UNCHANGED <<vars, fvars, cvars, bvars, db, dcall, dret>>

\* lines 92-102: one new Message row for every message of session_data
SaveAddMessages ==
    /\ dpc = "save:messages"
    /\ tx' = [tx EXCEPT !.messages =
                 @ \o [i \in DOMAIN dcall.messages |->
                          MessageRow(dcall.session_id, dcall.messages[i])]]
    /\ dpc' = "save:commit"
    /\ UNCHANGED <<vars, fvars, cvars, bvars, db, dcall, dret>>

\* lines 104-105: commit; the database may fail
SaveCommit ==
    /\ dpc = "save:commit"
    /\ \E fault \in BOOLEAN :
          IF fault
          THEN /\ dpc' = "save:except"
               /\ UNCHANGED <<db, dret>>
          ELSE /\ db' = tx
               /\ dret' = [status |-> "returned", reminder_id |-> ""]
               /\ dpc' = "done"
    /\ UNCHANGED <<vars, fvars, cvars, bvars, dcall, tx>>

\* lines 107-109: the exception is logged and raised again; what the session
\* had not committed is lost with it
SaveExcept ==
    /\ dpc = "save:except"
    /\ tx' = db
    /\ dret' = [status |-> "raised", reminder_id |-> ""]
    /\ dpc' = "done"
    /\ UNCHANGED <<vars, fvars, cvars, bvars, db, dcall>>

\* lines 171-192: the agent calls schedule_reminder
CallScheduleReminder ==
    /\ dpc = "idle"
    /\ Len(db.reminders) < MaxReminders
    /\ dpc' = "remind:user"
    /\ \E user_id \in UserIds, plant_id \in PlantIds :
          dcall' = [tool |-> "schedule_reminder", user_id |-> user_id,
                    plant_id |-> plant_id, reminder_type |-> "watering", user |-> 0,
                    reminder |-> 0, before |-> Len(db.reminders)]
    /\ tx' = db
    /\ dret' = NoReturn
    /\ UNCHANGED <<vars, fvars, cvars, bvars, db>>

\* lines 193-206: the user is selected by telegram_id, and created when
\* there is none; the database may fail
RemindGetUser ==
    /\ dpc = "remind:user"
    /\ \E fault \in BOOLEAN :
          IF fault
          THEN /\ dpc' = "remind:except"
               /\ UNCHANGED <<dcall, tx>>
          ELSE /\ dpc' = "remind:create"
               /\ IF UsersWith(tx, dcall.user_id) # {}
                  THEN /\ dcall' = [dcall EXCEPT
                                       !.user = CHOOSE i \in UsersWith(tx, dcall.user_id) : TRUE]
                       /\ UNCHANGED tx
                  ELSE /\ tx' = [tx EXCEPT !.users = Append(@, dcall.user_id)]
                       /\ dcall' = [dcall EXCEPT !.user = Len(tx.users) + 1]
    /\ UNCHANGED <<vars, fvars, cvars, bvars, db, dret>>

\* lines 209-220: int(plant_id) raises ValueError when plant_id is no
\* number; the Reminder row is added with status "pending" and committed;
\* the commit may fail, and then nothing is stored
RemindCreate ==
    /\ dpc = "remind:create"
    /\ IF dcall.plant_id \notin {None, "1"}
       THEN /\ dpc' = "remind:except"
            /\ UNCHANGED <<db, tx, dcall>>
       ELSE \E fault \in BOOLEAN :
               IF fault
               THEN /\ dpc' = "remind:except"
                    /\ UNCHANGED <<db, tx, dcall>>
               ELSE LET row == ReminderRow(dcall.user, dcall.plant_id,
                                           dcall.reminder_type, "pending")
                        committed == [tx EXCEPT !.reminders = Append(@, row)]
                    IN  /\ tx' = committed
                        /\ db' = committed
                        /\ dcall' = [dcall EXCEPT !.reminder = Len(committed.reminders)]
                        /\ dpc' = "remind:plant"
    /\ UNCHANGED <<vars, fvars, cvars, bvars, dret>>

\* lines 222-237: with a plant_id the plant is looked up for its name, and
\* the database may fail; then the ReminderInfo of the stored row is returned
RemindPlantName ==
    /\ dpc = "remind:plant"
    /\ \E fault \in {FALSE, dcall.plant_id # None} :
          IF fault
          THEN /\ dpc' = "remind:except"
               /\ UNCHANGED dret
          ELSE /\ dret' = [status |-> "pending", reminder_id |-> ToString(dcall.reminder)]
               /\ dpc' = "done"
    /\ UNCHANGED <<vars, fvars, cvars, bvars, db, tx, dcall>>

\* lines 239-248: every exception is logged and answered with a ReminderInfo
\* of status "failed" and reminder_id "error"; the session ends and what it
\* had not committed is lost
RemindExcept ==
    /\ dpc = "remind:except"
    /\ tx' = db
    /\ dret' = [status |-> "failed", reminder_id |-> "error"]
    /\ dpc' = "done"
    /\ UNCHANGED <<vars, fvars, cvars, bvars, db, dcall>>

\* the tool has returned; its locals are gone, the tables stay
ToolReturn ==
    /\ dpc = "done"
    /\ dpc' = "idle"
    /\ dcall' = NoCall
    /\ dret' = NoReturn
    /\ UNCHANGED <<vars, fvars, cvars, bvars, db, tx>>

StoreNext ==
    \/ CallSaveSession
    \/ SaveGetUser
    \/ SaveUpsertSession
    \/ SaveAddMessages
    \/ SaveCommit
    \/ SaveExcept
    \/ CallScheduleReminder
    \/ RemindGetUser
    \/ RemindCreate
    \/ RemindPlantName
    \/ RemindExcept
    \/ ToolReturn

\* the tools by themselves, one call at a time
StoreSpec == Init /\ [][StoreNext]_allvars

-----------------------------------------------------------------------------
(* Vocabulary of the properties *)

Did(step) == \E i \in DOMAIN trail : trail[i] = step

\* the statements of process_image that transform the image
Transformations == {"transpose", "convert", "enhance", "resize", "save"}

\* validate_plant_image has returned
Validated == op = "validate" /\ pc = "done"

\* validate_plant_image has returned a verdict on extracted features
Judged == Validated /\ Did("rules") /\ DOMAIN features # {}

Accepted == ret = <<TRUE, None>>

InBand(f) == ~FracLt(f.brightness, 30) /\ ~FracGt(f.brightness, 250)

\* the reasons of the rejecting rules that apply to the features, in rule order
Applicable(f) ==
    (IF f.green_ratio < 50 THEN <<LowGreen>> ELSE <<>>)
    \o (IF FracLt(f.brightness, 30) THEN <<TooDark>> ELSE <<>>)
    \o (IF FracGt(f.brightness, 250) THEN <<TooBright>> ELSE <<>>)

\* a synthetic image of one colour, at least 100 x 100, that process_image takes
IsSynthetic(d, c) ==
    /\ d.decodable
    /\ d.format \in {"JPEG", "PNG", "WEBP"}
    /\ d.mode = "RGB"
    /\ d.size[1] >= 100 /\ d.size[2] >= 100
    /\ d.px = Uniform(c)

\* the green mask as the specification states it: G > 1.2 R, G > 1.2 B, 40 < G < 250
InGreenMask(c) == 10 * c[2] > 12 * c[1] /\ 10 * c[2] > 12 * c[3] /\ 40 < c[2] /\ c[2] < 250

\* the formats the specification allows
SpecFormats == {"JPEG", "PNG", "WEBP"}

Small(d) == d.size[1] < 100 \/ d.size[2] < 100

\* the call has ended in the error msg: raised by process_image, or returned
\* as the reason of validate_plant_image's rejection
Failed(msg) ==
    /\ pc = "done"
    /\ IF op = "validate" THEN ret = <<FALSE, msg>> ELSE exc = msg

\* no statement of the set has been executed
Skipped(steps) == \A i \in DOMAIN trail : trail[i] \notin steps

Resized == "resized" \in DOMAIN metadata

\* the size of the input once its orientation is corrected
Corrected(d) == IF d.orientation \in 5..8 THEN <<d.size[2], d.size[1]>> ELSE d.size

Abs(x) == IF x < 0 THEN -x ELSE x

-----------------------------------------------------------------------------
(* Properties of the admission decision *)

\* C1: when the image was normalized and its features extracted,
\* validate_plant_image returns (True, None) if and only if green_ratio >= 0.05
\* and 30 <= brightness <= 250, the bounds included; otherwise it returns False.
C1_AcceptIffInRange ==
    Judged =>
        /\ Accepted <=> (features.green_ratio >= 50 /\ InBand(features))
        /\ ret[1] <=> Accepted

\* an image accepted with green_ratio = 0.05 and brightness = 30 exactly
C1_Witness ==
    /\ Judged
    /\ Accepted
    /\ features.green_ratio = 50
    /\ features.brightness[1] = 30 * features.brightness[2]

\* C2 as stated: every rejecting rule that applies has its reason in the
\* verdict (the verdict holds one reason, ret[2]).
C2_AllReasons ==
    Judged =>
        \A i \in DOMAIN Applicable(features) : Applicable(features)[i] = ret[2]

\* C2 amended: the verdict carries the reason of the first rule, in rule
\* order, that applies, and only that one.
C2_FirstReason ==
    Judged =>
        /\ Applicable(features) # <<>> => ret = <<FALSE, Head(Applicable(features))>>
        /\ Applicable(features) = <<>> => Accepted

\* two rules apply, low green and darkness, and one reason is returned
C2_Witness ==
    /\ Judged
    /\ Applicable(features) = <<LowGreen, TooDark>>
    /\ ret = <<FALSE, LowGreen>>

\* C3 as stated: a uniformly black image has brightness 0 and is rejected with
\* the darkness reason.
C3_BlackTooDark ==
    (Judged /\ IsSynthetic(image_data, Black)) =>
        /\ features.brightness[1] = 0
        /\ ret = <<FALSE, TooDark>>

\* C3 amended: a uniformly black image has brightness 0 and green_ratio 0 and
\* is rejected with the low-green reason; the darkness rule applies too, and
\* its reason is not returned.
C3_BlackLowGreen ==
    (Judged /\ IsSynthetic(image_data, Black)) =>
        /\ features.brightness[1] = 0
        /\ features.green_ratio = 0
        /\ Applicable(features) = <<LowGreen, TooDark>>
        /\ ret = <<FALSE, LowGreen>>

C3_Witness ==
    /\ Judged
    /\ IsSynthetic(image_data, Black)
    /\ image_data.size = <<2000, 1500>>
    /\ ret[2] = LowGreen

\* C4 as stated: a uniformly white image has brightness 255 and is rejected
\* with the overexposure reason.
C4_WhiteOverexposed ==
    (Judged /\ IsSynthetic(image_data, White)) =>
        /\ features.brightness[1] = 255 * features.brightness[2]
        /\ ret[1] = FALSE
        /\ ret[2] \in {TooBright, TooBright2}

\* C4 amended: a uniformly white image has brightness 255 and green_ratio 0 and
\* is rejected with the low-green reason; the overexposure rule applies too,
\* and its reason is not returned.
C4_WhiteLowGreen ==
    (Judged /\ IsSynthetic(image_data, White)) =>
        /\ features.brightness[1] = 255 * features.brightness[2]
        /\ features.green_ratio = 0
        /\ Applicable(features) = <<LowGreen, TooBright>>
        /\ ret = <<FALSE, LowGreen>>

C4_Witness ==
    /\ Judged
    /\ IsSynthetic(image_data, White)
    /\ image_data.size = MIN_SIZE
    /\ ret[2] = LowGreen

\* C5: a uniform image of colour (0, 200, 0) has, once normalized, every pixel
\* in the green mask (green_ratio = 1.0 >= 0.95) and a brightness within
\* [30, 250], and is accepted.
C5_AllGreenAccepted ==
    (Judged /\ IsSynthetic(image_data, AllGreen)) =>
        /\ InGreenMask(processed_data.px.b)
        /\ features.green_ratio >= 950
        /\ InBand(features)
        /\ Accepted

C5_Witness ==
    /\ Judged
    /\ IsSynthetic(image_data, AllGreen)
    /\ image_data.size = MIN_SIZE
    /\ features.green_ratio = 1000
    /\ Accepted

-----------------------------------------------------------------------------
(* Properties of process_image *)

\* C6 as stated: an image with a dimension below 100 px makes process_image
\* fail with the too-small error before any transformation, and
\* validate_plant_image rejects it without calling extract_plant_features.
C6_SmallFailsTooSmall ==
    (image_data.decodable /\ Small(image_data)) =>
        /\ Skipped(Transformations \cup {"extract_plant_features"})
        /\ pc = "done" => Failed(Wrap(TooSmall))

\* C6 amended: an image in an allowed format with a dimension below 100 px
\* makes process_image fail with the too-small error before any
\* transformation, nothing is returned, and validate_plant_image rejects it
\* with that error without calling extract_plant_features.  (In another
\* format the error is the unsupported-format one.)
C6_SmallAllowedFailsTooSmall ==
    (image_data.decodable /\ image_data.format \in SpecFormats /\ Small(image_data)) =>
        /\ Skipped(Transformations \cup {"metadata", "extract_plant_features"})
        /\ processed_data = NoImage
        /\ pc = "done" => Failed(Wrap(TooSmall))

\* validate_plant_image has rejected a 99 x 100 PNG as too small
C6_Witness ==
    /\ Validated
    /\ image_data.format = "PNG"
    /\ image_data.size = <<99, 100>>
    /\ ret = <<FALSE, Wrap(TooSmall)>>
    /\ ~Did("extract_plant_features")

\* C7: process_image fails for every input whose decoded format is not JPEG,
\* PNG or WEBP, with the unsupported-format error whatever the size, having
\* run neither the size check nor any transformation, and returns neither
\* bytes nor metadata.
C7_UnsupportedFormatFails ==
    (image_data.decodable /\ image_data.format \notin SpecFormats) =>
        /\ Skipped(Transformations \cup {"size", "metadata", "extract_plant_features"})
        /\ processed_data = NoImage
        /\ DOMAIN metadata = {}
        /\ pc = "done" => Failed(Wrap(Unsupported))

\* process_image has failed on a GIF that is also too small: the error is the
\* format's
C7_Witness ==
    /\ op = "process"
    /\ pc = "done"
    /\ image_data.format = "GIF"
    /\ Small(image_data)
    /\ exc = Wrap(Unsupported)

\* C8: for every decodable JPEG, PNG or WEBP input with both dimensions >= 100
\* px process_image raises nothing and returns an image, and that image is at
\* most 1024 px on either axis.
C8_OutputWithinMax ==
    (image_data.decodable /\ image_data.format \in SpecFormats /\ ~Small(image_data)) =>
        /\ exc = ""
        /\ pc \notin {"except", "validate_except"}
        /\ (pc = "done" \/ Did("save")) =>
              /\ processed_data.decodable
              /\ processed_data.size[1] \in 1..1024
              /\ processed_data.size[2] \in 1..1024

\* process_image has returned an elongated input downsized
C8_Witness ==
    /\ op = "process"
    /\ pc = "done"
    /\ image_data.size[1] = 100
    /\ image_data.size[2] > 10000
    /\ processed_data.size[2] = 1024
    /\ processed_data.size[1] < 100

\* C9 as stated: process_image succeeds on its own output, for every input it
\* accepted.
C9_SecondPassSucceeds ==
    (npass = 2 /\ pc = "done") => (exc = "" /\ processed_data.decodable)

\* C9 amended: process_image's output is in an allowed format, and
\* process_image succeeds on it exactly when the output still has both
\* dimensions >= 100 px; it fails, with the too-small error, only on a
\* downsized output (longer side 1024 px) whose shorter side fell below 100 px.
C9_SecondPassIffLargeEnough ==
    (npass = 2 /\ pc = "done") =>
        /\ image_data.format = "JPEG"
        /\ exc = "" <=> (image_data.size[1] >= 100 /\ image_data.size[2] >= 100)
        /\ exc = "" => processed_data.decodable
        /\ exc # "" =>
              /\ exc = Wrap(TooSmall)
              /\ Max(image_data.size[1], image_data.size[2]) = 1024

\* the second pass has succeeded on a downsized output
C9_Witness ==
    /\ npass = 2
    /\ pc = "done"
    /\ exc = ""
    /\ image_data.size = <<1024, 768>>
    /\ processed_data.size = <<1024, 768>>

\* C10: process_image downsizes exactly when the orientation-corrected image
\* exceeds 1024 px on either axis; a downsized image has its longer side at
\* 1024 px and its shorter side within one pixel of the proportional value,
\* and no side grown; an image within 1024 x 1024 keeps its dimensions.
C10_DownsizeKeepsAspect ==
    Did("resize") =>
        LET in  == Corrected(image_data)
            out == image.size
        IN  /\ Resized <=> (in[1] > 1024 \/ in[2] > 1024)
            /\ ~Resized => out = in
            /\ Resized =>
                  /\ metadata["new_size"] = out
                  /\ out[1] <= in[1] /\ out[2] <= in[2]
                  /\ out[1] >= 1 /\ out[2] >= 1
                  /\ IF in[2] >= in[1]
                     THEN out[2] = 1024 /\ Abs(out[1] * in[2] - 1024 * in[1]) < in[2]
                     ELSE out[1] = 1024 /\ Abs(out[2] * in[1] - 1024 * in[2]) < in[1]

\* a rotated 1500 x 2000 input has been downsized to 1024 x 768
C10_Witness ==
    /\ Did("resize")
    /\ image_data.size = <<1500, 2000>>
    /\ image_data.orientation = 6
    /\ Resized
    /\ image.size = <<1024, 768>>

-----------------------------------------------------------------------------
(* Properties of what process_image and validate_plant_image hand back *)

\* process_image has returned (processed_data, metadata)
Returned == Did("save")

\* the metadata keys the specification lists
SpecKeys ==
    {"original_size", "new_size", "original_format", "file_size",
     "processed_size", "hash", "resized", "converted_to_rgb"}

\* the keys lines 52-60 and 84-85 always set
BaseKeys ==
    {"original_format", "original_size", "mode", "file_size", "hash",
     "processed_size", "compression_ratio"}

\* C11 as stated: every successful process_image returns metadata holding
\* the original and new dimensions, the format, both byte sizes, the hash, a
\* resized flag and a mode-conversion flag, whether or not the image was
\* resized or converted.
C11_AllKeysAlways ==
    Returned => SpecKeys \subseteq DOMAIN metadata

\* C11 amended: the metadata always holds the original format, size and mode,
\* both byte sizes, the hash and the compression ratio; "resized" (True) and
\* "new_size" are present exactly when the image was downsized, and
\* "converted_to_rgb" (True) exactly when its mode was neither RGB nor L.
C11_KeysWhenApplicable ==
    Returned =>
        LET in == Corrected(image_data)
            large == in[1] > 1024 \/ in[2] > 1024
            other == image_data.mode \notin {"RGB", "L"}
        IN  /\ BaseKeys \subseteq DOMAIN metadata
            /\ DOMAIN metadata \subseteq BaseKeys \cup SpecKeys
            /\ metadata["original_size"] = image_data.size
            /\ metadata["original_format"] = image_data.format
            /\ metadata["mode"] = image_data.mode
            /\ "resized" \in DOMAIN metadata <=> large
            /\ "new_size" \in DOMAIN metadata <=> large
            /\ "converted_to_rgb" \in DOMAIN metadata <=> other
            /\ large => metadata["resized"] = TRUE /\ metadata["new_size"] = image.size
            /\ other => metadata["converted_to_rgb"] = TRUE

\* an RGB image within 1024 x 1024 returned with neither flag nor new_size
C11_Witness ==
    /\ Returned
    /\ image_data.mode = "RGB"
    /\ image_data.size = <<1000, 1000>>
    /\ DOMAIN metadata = BaseKeys

\* the reasons of validate_plant_image's rules
RuleReasons == {LowGreen, TooDark, TooBright, TooBright2}

\* extract_plant_features returned {} and the rules have run on it
ExtractionFailed == Validated /\ Did("rules") /\ DOMAIN features = {}

\* C12: when extract_plant_features fails (returns no features),
\* validate_plant_image rejects with a generic reason, not with the reason of
\* one of its rules such as low green.
C12_FaultGivesGenericReason ==
    ExtractionFailed => (ret[1] = FALSE /\ ret[2] \notin RuleReasons)

\* C13: validate_plant_image always returns a pair (flag, reason) and lets
\* no exception out (an exception in flight is on its way to the handler of
\* lines 304-306); the reason is None exactly when the flag is True, and a
\* rejection carries a non-empty reason.
C13_Total ==
    /\ op = "validate" => (exc_type # "" => pc \in {"except", "validate_except"})
    /\ Validated =>
          /\ exc = "" /\ exc_type = ""
          /\ ret[1] \in BOOLEAN
          /\ ret[2] = None <=> ret[1]
          /\ ~ret[1] => (ret[2] # "" /\ ret[2] # None)

\* validate_plant_image has turned an exception of process_image into a
\* rejection with the exception's message
C13_Witness ==
    /\ Validated
    /\ Did("validate_except")
    /\ ret = <<FALSE, "Failed to process image: cannot identify image file">>

\* why process_image failed, by the statement that raised
Cause ==
    IF Did("size") THEN "too_small"
    ELSE IF Did("format") THEN "unsupported_format"
    ELSE "decode"

\* process_image, called by itself, has raised
ProcessFailed == op = "process" /\ pc = "done" /\ exc_type # ""

\* the error kinds of section 7 of the specification
SpecKind ==
    [unsupported_format |-> "UnsupportedFormatError",
     too_small |-> "ImageTooSmallError",
     decode |-> "DecodeError"]

\* C14 as stated: process_image reports its failures as three distinct error
\* kinds, one per cause, so that the kind tells the cause; a failure comes
\* with no partial result.
C14_KindTellsCause ==
    ProcessFailed =>
        /\ exc_type = SpecKind[Cause]
        /\ processed_data = NoImage

\* C14 amended: every failure of process_image is a ValueError; the three
\* causes differ in the message only ("Failed to process image: " followed by
\* the cause), and a failure comes with no bytes and no metadata.
C14_OneKindThreeMessages ==
    /\ ProcessFailed =>
          /\ exc_type = ValueError
          /\ exc = (CASE Cause = "unsupported_format" ->
                            "Failed to process image: Unsupported image format"
                       [] Cause = "too_small" ->
                            "Failed to process image: Image too small"
                       [] OTHER ->
                            "Failed to process image: cannot identify image file")
          /\ processed_data = NoImage
          /\ metadata = EmptyDict
    /\ (op = "process" /\ pc = "done" /\ exc_type = "") =>
          (exc = "" /\ processed_data.decodable)

\* a too-small image and nothing else has failed as a ValueError
C14_Witness ==
    /\ ProcessFailed
    /\ Cause = "too_small"
    /\ exc_type = ValueError
    /\ image_data.size = <<99, 100>>

-----------------------------------------------------------------------------
(* Properties of the feature functions *)

\* _get_dominant_colors has returned for an H x W x 3 array
DominantReturned == "dominant_colors" \in DOMAIN fout /\ img_array.ndim = 3

\* the sum of the percentages returned, in tenths of a percent
PercentSum ==
    SumSeq([i \in DOMAIN fout["dominant_colors"] |->
               fout["dominant_colors"][i].percentage])

\* how many pixels of the array quantize to the colour c
PixelsOf(c) == Cardinality({k \in DOMAIN img_array.px : Quantize(img_array.px[k]) = c})

\* the entries are at most five, distinct colours of the array, in order of
\* frequency, the most frequent first
DominantOrdered ==
    LET dc == fout["dominant_colors"]
    IN  /\ Len(dc) <= 5
        /\ \A i \in DOMAIN dc : PixelsOf(dc[i].color) > 0
        /\ \A i \in DOMAIN dc : \A j \in DOMAIN dc :
              i < j => /\ dc[i].color # dc[j].color
                       /\ PixelsOf(dc[i].color) >= PixelsOf(dc[j].color)
                       /\ dc[i].percentage >= dc[j].percentage
        /\ \A k \in DOMAIN img_array.px :
              \/ \E i \in DOMAIN dc : dc[i].color = Quantize(img_array.px[k])
              \/ /\ Len(dc) = 5
                 /\ PixelsOf(dc[5].color) >= PixelsOf(Quantize(img_array.px[k]))

\* C15 as stated: the percentages _get_dominant_colors returns, each rounded
\* to one decimal, sum to at most 100; the entries are in order of
\* non-increasing frequency and at most n_colors = 5.
C15_SumAtMost100 ==
    DominantReturned => (PercentSum <= 1000 /\ DominantOrdered)

\* C15 amended: the entries are at most five and in order of non-increasing
\* frequency; each percentage is rounded to one decimal by itself, so the sum
\* may pass 100, by at most 0.05 per entry (100.2 at most).
C15_SumWithinRounding ==
    DominantReturned =>
        /\ 2 * PercentSum <= 2000 + Len(fout["dominant_colors"])
        /\ DominantOrdered
        /\ \A i \in DOMAIN fout["dominant_colors"] :
              LET e == fout["dominant_colors"][i]
              IN  2 * Abs(1000 * PixelsOf(e.color) - e.percentage * Len(img_array.px))
                      <= Len(img_array.px)

\* six pixels of three colours, 4 + 1 + 1: 66.7 + 16.7 + 16.7 = 100.1
C15_Witness ==
    /\ DominantReturned
    /\ Len(fout["dominant_colors"]) = 3
    /\ fout["dominant_colors"][1].percentage = 667
    /\ PercentSum = 1001

\* _detect_leaf_edges has returned for an H x W x 3 array
EdgesReturned == "leaf_edge_detection" \in DOMAIN fout /\ img_array.ndim = 3

\* the sum, over the vertically adjacent pairs, of |G[i+1][j] - G[i][j]|
TrueEdgeSum ==
    SumSeq([k \in 1..((img_array.h - 1) * img_array.w) |->
               Abs(img_array.px[k + img_array.w][2] - img_array.px[k][2])])

\* C16: edge_strength is the mean of |G[i+1][j] - G[i][j]| over the vertically
\* adjacent pairs of the green channel, a falling step counting like a rising
\* one, and has_clear_edges is true exactly when that mean exceeds 20.
C16_EdgeStrengthIsMeanAbs ==
    EdgesReturned =>
        LET n == (img_array.h - 1) * img_array.w
            e == fout["leaf_edge_detection"]
        IN  /\ 2 * Abs(100 * TrueEdgeSum - e.edge_strength * n) <= n
            /\ e.has_clear_edges <=> (TrueEdgeSum > 20 * n)

\* _calculate_texture_complexity has returned
TextureReturned == "texture_complexity" \in DOMAIN fout

\* the grayscale value of pixel k
GrayOf(k) ==
    IF img_array.ndim = 3 THEN Sum3(img_array.px[k]) \div 3 ELSE img_array.px[k][1]

\* the sums of the absolute differences of neighbouring grayscale values,
\* down the columns and along the rows
TrueGradSum0 ==
    SumSeq([k \in 1..((img_array.h - 1) * img_array.w) |->
               Abs(GrayOf(k + img_array.w) - GrayOf(k))])

TrueGradSum1 ==
    SumSeq([k \in 1..Len(img_array.px) |->
               IF k % img_array.w = 0 THEN 0 ELSE Abs(GrayOf(k + 1) - GrayOf(k))])

\* C17: texture_complexity is the average of the mean absolute difference of
\* the grayscale down the columns and of that along the rows, the true
\* absolute difference; a uniform image gives 0 and no image more than 255.
C17_TextureIsMeanAbs ==
    TextureReturned =>
        LET n0 == (img_array.h - 1) * img_array.w
            n1 == img_array.h * (img_array.w - 1)
            t == fout["texture_complexity"]
        IN  /\ 2 * Abs(100 * (TrueGradSum0 * n1 + TrueGradSum1 * n0) - t * 2 * n0 * n1)
                  <= 2 * n0 * n1
            /\ (\A k \in DOMAIN img_array.px : img_array.px[k] = img_array.px[1]) => t = 0
            /\ t <= 25500

\* _calculate_green_ratio has returned
GreenReturned == "green_ratio" \in DOMAIN fout

\* the pixels of the array inside the green mask as the specification states it
MaskedPixels == {k \in DOMAIN img_array.px : InGreenMask(img_array.px[k])}

\* C18: green_ratio is the number of pixels with G > 1.2 R, G > 1.2 B and
\* 40 < G < 250 (G = 40, 250 and 255 are not green) over the number of pixels,
\* rounded to three decimals; it is within [0, 1]; an array that is not
\* H x W x 3 gives 0.0.
C18_GreenRatio ==
    GreenReturned =>
        LET g == fout["green_ratio"]
            n == Len(img_array.px)
        IN  /\ g >= 0 /\ g <= 1000
            /\ img_array.ndim # 3 => g = 0
            /\ img_array.ndim = 3 =>
                  2 * Abs(1000 * Cardinality(MaskedPixels) - g * n) <= n

\* of six pixels with G = 40, 250 and 200, only the two with G = 200 count
C18_Witness ==
    /\ GreenReturned
    /\ img_array.ndim = 3
    /\ Len(img_array.px) = 6
    /\ \E i, j \in DOMAIN img_array.px :
          img_array.px[i] = <<0, 40, 0>> /\ img_array.px[j] = <<0, 250, 0>>
    /\ Cardinality(MaskedPixels) = 2
    /\ fout["green_ratio"] = 333

-----------------------------------------------------------------------------
(* The advisory findings and the verdict *)

\* the features with the advisory ones replaced: brown_ratio by b, contrast
\* by c, texture_complexity by t, leaf_edge_detection by e and
\* potential_issues by p
WithAdvisory(f, b, c, t, e, p) ==
    [k \in DOMAIN f \cup {"texture_complexity", "leaf_edge_detection"} |->
        CASE k = "brown_ratio" -> b
          [] k = "contrast" -> c
          [] k = "texture_complexity" -> t
          [] k = "leaf_edge_detection" -> e
          [] k = "potential_issues" -> p
          [] OTHER -> f[k]]

\* lists of advisory findings
IssueLists ==
    {<<>>, <<HighBrown>>, <<LowGreenIssue>>, <<DarkIssue>>, <<OverexposedIssue>>,
     <<LowContrast>>, <<HighBrown, LowGreenIssue, DarkIssue, LowContrast>>}

\* C19: the advisory findings never change the verdict: an image that agrees
\* with the image just judged on green_ratio and brightness and differs from
\* it in brown_ratio, contrast, texture, edges or potential_issues gets the
\* same verdict and the same reason.
C19_AdvisoryNeverDecides ==
    Judged =>
        \A b \in {0, 1000} : \A c \in {0, 127} : \A t \in {0, 25500} :
            \A e \in {[edge_strength |-> 0, has_clear_edges |-> FALSE],
                      [edge_strength |-> 25500, has_clear_edges |-> TRUE]} :
                \A p \in IssueLists :
                    ValidateRules(WithAdvisory(features, b, c, t, e, p)) = ret

\* an image accepted although it has advisory findings
C19_Witness ==
    /\ Judged
    /\ Accepted
    /\ features.contrast < 20
    /\ features.potential_issues = <<LowGreenIssue, LowContrast>>

-----------------------------------------------------------------------------
(* Calls running at once *)

\* what caller c's call has returned or raised
Outcome(c) ==
    CASE calls[c].op = "validate" -> calls[c].ret
      [] calls[c].op = "process" ->
            [raised |-> calls[c].exc, processed_data |-> calls[c].processed_data,
             metadata |-> calls[c].metadata]
      [] OTHER -> calls[c].features

\* what the same call returns or raises when it runs alone
OutcomeAlone(c) ==
    CASE calls[c].op = "validate" -> ValidateAlone(calls[c].image_data)
      [] calls[c].op = "process" -> ProcessAlone(calls[c].image_data)
      [] OTHER -> ExtractAlone(calls[c].image_data)

\* C20: the calls share no mutable state: calls of validate_plant_image,
\* process_image and extract_plant_features running at once, in any
\* interleaving, each return what they return alone on the same bytes, and
\* none modifies MAX_SIZE, MIN_SIZE or ALLOWED_FORMATS.
C20_CallsIndependent ==
    /\ cls = [MAX_SIZE |-> <<1024, 1024>>,
              ALLOWED_FORMATS |-> {"JPEG", "PNG", "JPG", "WEBP"},
              MIN_SIZE |-> <<100, 100>>]
    /\ \A c \in Callers :
          calls[c].pc = "done" =>
              /\ Outcome(c) = OutcomeAlone(c)
              /\ calls[c].op = "validate" => calls[c].exc = ""

\* a validation and a normalization that ran interleaved have both returned:
\* the one accepted its image, the other downsized a large one
C20_Witness ==
    /\ interleaved
    /\ calls[1].pc = "done" /\ calls[1].op = "validate"
    /\ calls[1].ret = <<TRUE, None>>
    /\ calls[2].pc = "done" /\ calls[2].op = "process"
    /\ calls[2].processed_data.size = <<768, 1024>>

-----------------------------------------------------------------------------
(* C29: the two masks.                                                      *)

\* _calculate_brown_ratio has returned
BrownReturned == "brown_ratio" \in DOMAIN fout

\* channel values on both sides of every bound of the two masks
Levels == {0, 30, 31, 40, 41, 50, 51, 60, 100, 120, 121, 139, 140, 150,
           179, 180, 200, 249, 250, 255}

\* the pixels of the array the code counts as green, and as brown
GreenPixels == {k \in DOMAIN img_array.px : IsGreen(img_array.px[k])}

BrownPixels == {k \in DOMAIN img_array.px : IsBrown(img_array.px[k])}

\* no colour over Levels is in both masks
DisjointOnLevels ==
    \A r \in Levels, g \in Levels, b \in Levels :
        ~(IsGreen(<<r, g, b>>) /\ IsBrown(<<r, g, b>>))

\* C29: no RGB value is in both the green mask and the brown mask (green
\* needs G > 1.2 R, brown needs R > G), so in every array the green pixels
\* and the brown pixels are disjoint, their counts sum to at most the number
\* of pixels, and the two returned ratios sum to at most 1 up to the rounding
\* of each to three decimals.
C29_MasksDisjoint ==
    /\ DisjointOnLevels
    /\ (BrownReturned /\ img_array.ndim = 3) =>
          /\ GreenPixels \cap BrownPixels = {}
          /\ Cardinality(GreenPixels) + Cardinality(BrownPixels) <= Len(img_array.px)
          /\ fout["green_ratio"] + fout["brown_ratio"] <= 1001

\* two green pixels and two brown pixels: each ratio is 0.5
C29_Witness ==
    /\ BrownReturned
    /\ img_array.ndim = 3
    /\ Len(img_array.px) = 4
    /\ Cardinality(GreenPixels) = 2
    /\ Cardinality(BrownPixels) = 2
    /\ fout["green_ratio"] = 500
    /\ fout["brown_ratio"] = 500

-----------------------------------------------------------------------------
(* C30: greyscale photos.                                                   *)

\* a greyscale file: of mode L, or with R = G = B in every pixel
Greyscale(d) ==
    /\ d.decodable
    /\ \/ d.mode = "L"
       \/ \A c \in {d.px.a, d.px.b} : c[1] = c[2] /\ c[2] = c[3]

\* C30: every greyscale image (mode L, or all pixels with R = G = B) that
\* process_image normalizes is rejected by validate_plant_image with the
\* low-green reason, whatever its brightness: black, white or in between.
C30_GreyscaleLowGreen ==
    (Validated /\ Greyscale(image_data) /\ Did("save")) =>
        /\ ret = <<FALSE, LowGreen>>
        /\ DOMAIN features # {} => features.green_ratio = 0

\* a mid-grey and white RGB image, neither dark nor overexposed, is rejected
\* for low green; so are a black and a white one
C30_Witness ==
    /\ Judged
    /\ Greyscale(image_data)
    /\ image_data.mode = "RGB"
    /\ image_data.px.na = 5000
    /\ InBand(features)
    /\ ret = <<FALSE, LowGreen>>

-----------------------------------------------------------------------------
(* Properties of the Telegram bot (BotSpec) *)

\* handle_photo has run to its end on the photo in `update'
PhotoHandled == update.kind = "photo" /\ bpc = "return"

\* the handler has called fn
Called(fn) == \E i \in DOMAIN invoked : invoked[i].fn = fn

\* validate_plant_image accepted, or rejected, the photo in `update'
PhotoAccepted == Called("validate_plant_image") /\ ValidateAlone(update.file)[1]

PhotoRejected == Called("validate_plant_image") /\ ~ValidateAlone(update.file)[1]

IsReply(m) == m.call = "reply_text"

\* the messages the handler has sent to the chat
Replies == SelectSeq(outbox, IsReply)

\* main.py has done the step
Done(step) == \E i \in DOMAIN script.done : script.done[i] = step

\* C21: a photo reaches agent.analyze_plant_image if and only if
\* validate_plant_image accepted it: every accepted photo goes on to the
\* agent's diagnosis and the agent's answer is the last message sent, with
\* the plant keyboard; no rejected photo is forwarded.
C21_AcceptedReachesAgent ==
    PhotoHandled =>
        /\ Called("analyze_plant_image") <=> PhotoAccepted
        /\ PhotoAccepted =>
              /\ Replies # <<>>
              /\ Replies[Len(Replies)].keyboard = PlantKeyboard

\* C22: MAX_IMAGE_SIZE is enforced before the image component is invoked:
\* handle_photo never passes validate_plant_image or process_image a buffer
\* that fails validate_image_size (a length of 0 or below, or above
\* MAX_IMAGE_SIZE).
C22_SizeCheckedFirst ==
    \A i \in DOMAIN invoked :
        invoked[i].fn \in {"validate_plant_image", "process_image"} =>
            validate_image_size(invoked[i].arg)[1]

\* C23: handle_photo answers every photo and lets no exception of the
\* download, the validation, the processing, the saving or the agent leave
\* it.  A rejected photo gets exactly one message, the rejection with the
\* reason of validate_plant_image; a photo whose handling failed after it was
\* accepted, or before it was validated, gets the generic error text as its
\* last message.
C23_EveryPhotoAnswered ==
    /\ update.kind = "photo" => escaped = ""
    /\ PhotoHandled =>
          /\ hexc = ""
          /\ Replies # <<>>
          /\ PhotoRejected =>
                Replies = <<Sent("reply_text", "rejection", ValidateAlone(update.file)[2], {})>>
          /\ (~PhotoRejected /\ ~Called("analyze_plant_image")) =>
                Replies[Len(Replies)].text = "generic_error"

\* a grey wall is rejected for its low green, in one message
C23_Witness ==
    /\ PhotoHandled
    /\ PhotoRejected
    /\ Len(Replies) = 1
    /\ Replies[1].detail = LowGreen
    /\ escaped = ""

\* C24: every callback_data the bot attaches to a button (action_photo,
\* action_my_plants, action_tip, action_encyclopedia, action_reminders,
\* action_help, action_menu, plant_water_new, plant_save_new) is handled by
\* handle_callback_query with a visible response, an edit of the message,
\* and without raising.
C24_EveryButtonEdits ==
    (update.kind = "callback" /\ bpc = "return") =>
        /\ escaped = ""
        /\ \E i \in DOMAIN outbox : outbox[i].call = "edit_message_text"

\* C25: main.py run as a script reaches polling: when main() calls bot.run(),
\* run and _run_polling are attached to TelegramBot; nothing raises out of
\* the script and it does not take the fatal-error branch.
C25_ScriptReachesPolling ==
    script.launch = "script" =>
        /\ bpc = "main:run" => {"run", "_run_polling"} \subseteq script.attached
        /\ ~Done("fatal")
        /\ escaped = ""

\* C26: PlantCareAgent.process_message always returns a text reply and never
\* raises, so the handlers always have a string to send: a program that
\* imports core.agent of this repository gets the class, and with it the
\* method.
C26_AgentAlwaysAnswers ==
    script.core_agent = "repository" =>
        /\ bpc # "exited"
        /\ escaped # "SyntaxError"

-----------------------------------------------------------------------------
(* Properties of the database tools (StoreSpec) *)

\* schedule_reminder has returned
ReminderReturned == dcall.tool = "schedule_reminder" /\ dpc = "done"

\* the Reminder rows committed since the call began
NewReminders == Len(db.reminders) - dcall.before

\* C27: schedule_reminder returns status "failed" with reminder_id "error"
\* only when no Reminder row was committed for the call, and status "pending"
\* with the id of the stored row only when exactly one pending Reminder row
\* was committed; this holds also when a database step after the commit (the
\* plant lookup) fails.
C27_StatusTellsWhatIsStored ==
    ReminderReturned =>
        /\ dret.status \in {"failed", "pending"}
        /\ dret.status = "failed" => (dret.reminder_id = "error" /\ NewReminders = 0)
        /\ dret.status = "pending" =>
              /\ NewReminders = 1
              /\ db.reminders[Len(db.reminders)].status = "pending"
              /\ dret.reminder_id = ToString(Len(db.reminders))

\* C28: after any successful calls of save_user_session for a session, the
\* stored messages_count of the session equals the number of Message rows of
\* the session; saving the same data twice leaves the rows of saving it once.
C28_CountMatchesRows ==
    \A session_id \in DOMAIN db.sessions :
        db.sessions[session_id].messages_count = Cardinality(MessagesOf(db, session_id))

=============================================================================
